---- MODULE Spec2Model ----
(***************************************************************************)
(* DepViz extraction / resolution / import pipeline.                       *)
(*                                                                         *)
(*   Spec       the Import/Batch orchestrator (importMany, importUri,      *)
(*              importText, evictFingerprint), the Parse Index, the        *)
(*              Fingerprint Cache and the cross-file call resolver, as     *)
(*              interleaved asynchronous tasks on one event loop.          *)
(*                                                                         *)
(*   SpecBatch  importMany alone, over every kind of root (plain files,    *)
(*              directories walked by importUri, directories expanded by   *)
(*              findFiles) and every cap, with cancellation.               *)
(*                                                                         *)
(*   SpecParse  one parseFile call: the orchestrator of index.ts, the      *)
(*              mapper of lspParser.ts with its warm-up retries and its    *)
(*              call-hierarchy queries, the lexical import scan and the    *)
(*              deadline timer.                                            *)
(*                                                                         *)
(* Every await of the code is a task's program counter; the code between   *)
(* two awaits is one atomic action.                                        *)
(***************************************************************************)
EXTENDS Integers, Sequences, FiniteSets, TLC

(***************************************************************************)
(* Bounds of the model.                                                    *)
(***************************************************************************)
MaxVer == 2          \* contents a file can have (versions 1..MaxVer)
MaxEdits == 1        \* disk edits per behaviour
MaxEvicts == 1       \* evictFingerprint messages per behaviour
MaxHooks == 1        \* save-hook / live-update imports per behaviour
MaxBatches == 1      \* importMany calls per behaviour
MaxSaves == 2        \* saves of documents per behaviour
MaxScans == 2        \* import targets put through the import loop per behaviour
MaxClears == 1       \* clearCanvas messages per behaviour
MaxParses == 2       \* parseFile calls per behaviour, one after the other
MaxContent == 3      \* contents an edit can give a file where bodies are rewritten

(***************************************************************************)
(* The storage tree the import walks: the workspace holds directories d    *)
(* and w; d holds e, m (a .map file), h (a file over the size ceiling) and *)
(* b; e holds a; w holds dist and dist holds g.  a, b and g are source     *)
(* files, g being build output that no hook, edit or eviction touches;     *)
(* each holds one function f.  In                                          *)
(* contents 1 and 2 f is declared at line 1 and 2 and calls the f of the   *)
(* other file; a content above 2 is content v - 2 with the call removed    *)
(* from the body of f: same declaration line, no outgoing call.            *)
(***************************************************************************)
RegFiles == {"a", "b"}
Stored == RegFiles \cup {"g"}
Dirs == {"d", "e", "w", "dist"}

Children(u) ==
  IF u = "d" THEN <<"e", "m", "h", "b">>
  ELSE IF u = "e" THEN <<"a">>
  ELSE IF u = "w" THEN <<"dist">>
  ELSE IF u = "dist" THEN <<"g">> ELSE <<>>

\* what vscode.workspace.findFiles yields for the include globs and the
\* default exclude globs (.git, node_modules, __pycache__), in its order
WsFiles == <<"a", "m", "h", "b", "g">>
Under(dir) ==
  IF dir = "d" THEN {"a", "m", "h", "b"}
  ELSE IF dir = "e" THEN {"a"}
  ELSE IF dir \in {"w", "dist"} THEN {"g"} ELSE {}

Versions == 1..MaxVer

\* the line f is declared at in content v, and whether its body calls
FnLine(v) == IF v <= 2 THEN v ELSE v - 2
CallsOther(v) == v <= 2
Other(f) == IF f = "a" THEN "b" ELSE "a"

batchSize == 8

SKIP_DIRS == {"node_modules", ".git", ".venv", "venv", ".env", "dist", "out",
              "build", ".cache", "__pycache__", ".pytest_cache", ".mypy_cache",
              ".ruff_cache", ".tox"}

\* SKIP_EXTS.has(extOf(uri.path)): m is the one file with a skip-listed extension
SkipExt(u) == u = "m"
\* stat.size > currentMaxFileSize(): h is the one file over the ceiling
TooBig(u) == u = "h"

\* depviz.crossFileCalls, default true
enableXfile == TRUE

(***************************************************************************)
(* shared/encoding hash and shared/workspace normalizePath are not among   *)
(* the sources at hand: the fingerprint is a content hash without          *)
(* collisions among the model's contents, the cache key is the path.       *)
(***************************************************************************)
hashString(text) == text + 100
normalizePath(p) == p

NoFingerprint == 0
NoResult == [status |-> "none", text |-> 0, fns |-> <<>>]
NoEntry == [hit |-> FALSE, calls |-> <<>>]
NoPost == [kind |-> "none"]
\* batchId?: string, when the caller passes none
NoBatchId == 0

\* a label left as it is spelled
KeepSeparators(p) == p

\* a path or label is the sequence of its pieces: separators, names, extensions
normalizePosixPath(p) == [k \in 1..Len(p) |-> IF p[k] = "\\" THEN "/" ELSE p[k]]

\* `mod:${label}`, `cls:${fileLabel}#${className}`, `fn:${fileLabel}#${name}@${line}`
makeModuleId(label) == <<"mod", normalizePosixPath(label)>>
makeClassId(fileLabel, className) == <<"cls", normalizePosixPath(fileLabel), className>>
makeFuncId(fileLabel, name, line) == <<"fn", normalizePosixPath(fileLabel), name, line>>

\* the function node parseWithLsp emits for a provider symbol
FuncNode(f, name, line) ==
  [id |-> makeFuncId(<<f>>, name, line), label |-> name, line |-> line]

\* the ParseResult of parseFile as the import pipeline sees it: its status,
\* the text parsed and its function nodes (none unless the provider answered)
ParseResultOf(f, text, status) ==
  [status |-> status, text |-> text,
   fns |-> IF status = "ok" THEN <<FuncNode(f, <<"f">>, FnLine(text))>> ELSE <<>>]

Statuses == {"ok", "partial", "nolsp"}

VARIABLES
  disk,          \* storage: file -> content version
  fingerprints,  \* ImportService.fingerprints: file -> fingerprint (NoFingerprint: no entry)
  index,         \* ParseService.index: file -> ParseResult (NoResult: no entry)
  chCache,       \* crossFileCalls.chCache: <<file, line>> -> outgoing calls (NoEntry: no entry)
  tasks,         \* the top-level importUri / importText invocations
  stats,         \* BatchStats of the running importMany
  batch,         \* importMany: its list, position and messages
  cancelled,     \* the batch's CancellationToken
  postCount,     \* addArtifacts messages posted to the webview
  lastPost,      \* the most recent addArtifacts message
  parseCalls,    \* parseService.parseFile calls made
  queryCount,    \* call-hierarchy queries issued by the resolver
  asked,         \* queries issued per <<file, line>> since the resolver's cache was cleared
  statted,       \* uris the batch's importUri calls handed to workspace.fs.stat
  budget,        \* remaining environment events
  job,           \* one ParseService.parseFile call: its input, position and result
  lspP,          \* the parseWithLsp promise of that call
  timer,         \* the deadline timer of index.ts timeout()
  lspWarnedThisSession,  \* ImportService.lspWarnedThisSession: the advisory was shown
  scans,         \* the import targets put through the loop of staticImportArtifacts
  imp,           \* the importUri call that awaits the parseFile call of job
  prior,         \* what the earlier parseFile calls were given and returned
  importDebounce \* extension.ts importDebounce: the save hook's one timer and the
                 \* saved documents no importUri call has followed yet

vars == <<disk, fingerprints, index, chCache, tasks, stats, batch, cancelled,
          postCount, lastPost, parseCalls, queryCount, asked, statted, budget, job, lspP, timer,
          lspWarnedThisSession, scans, imp, prior, importDebounce>>

Min(x, y) == IF x < y THEN x ELSE y
Max(x, y) == IF x > y THEN x ELSE y
Abs(x) == IF x < 0 THEN -x ELSE x

MaxCap == 9          \* largest depviz.maxFiles tried: one more than a slice holds

\* 0: the save/live hook's call; 1..: the calls of one batch slice
TaskIds == 0..Min(batchSize, MaxCap)

NoStats == [importedOk |-> 0, importedPartial |-> 0, importedNoLsp |-> 0,
            failed |-> 0, skippedBySize |-> 0, skippedByExt |-> 0]

IdleTask == [pc |-> "idle", kind |-> "none", uri |-> "none", stack |-> <<>>,
             inBatch |-> FALSE, batchId |-> NoBatchId, text |-> 0, res |-> NoResult,
             snap |-> <<>>, todo |-> <<>>, emit |-> <<>>, out |-> "none"]

IdleBatch == [pc |-> "idle", id |-> NoBatchId, files |-> <<>>, i |-> 0, maxFiles |-> 0,
              roots |-> <<>>, totalFound |-> 0, told |-> <<>>, summary |-> <<>>]

(***************************************************************************)
(* Cross-file call resolver: the pure parts of crossFileCalls.ts.          *)
(***************************************************************************)
\* a name is the sequence of its dot-separated parts; simpleName is the last
simpleName(name) == IF Len(name) = 0 THEN "" ELSE name[Len(name)]

\* file -> its function nodes, for the files of the Parse Index that have any
buildWorkspaceFuncIndex(idx) ==
  [f \in {g \in DOMAIN idx : idx[g].fns # <<>>} |-> idx[f].fns]

\* byFileThenName.get(targetFs)?.get(simple)
Candidates(byFile, targetFs, simple) ==
  IF targetFs \in DOMAIN byFile
  THEN SelectSeq(byFile[targetFs], LAMBDA n : simpleName(n.label) = simple)
  ELSE <<>>

RECURSIVE NearestFrom(_, _, _, _)
NearestFrom(cands, tLine, best, bestDelta) ==
  IF cands = <<>> THEN best
  ELSE LET c == Head(cands)
           delta == Abs(c.line - tLine)
       IN IF bestDelta < 0 \/ delta < bestDelta
          THEN NearestFrom(Tail(cands), tLine, c, delta)
          ELSE NearestFrom(Tail(cands), tLine, best, bestDelta)

\* pickBestTarget: the candidate nearest to the reported line, the first on a tie
\* (bestDelta < 0 stands for Number.MAX_SAFE_INTEGER)
pickBestTarget(item, candidates) == NearestFrom(candidates, item.line, candidates[1], -1)

\* functions of b that share the simple name f: f on line 1, f again on line 3
\* and the method K.f, also on line 3
PickFns == {FuncNode("b", <<"f">>, 1), FuncNode("b", <<"f">>, 3), FuncNode("b", <<"K", "f">>, 3)}

\* the candidate lists the Parse Index can hold for them, in every order
PickLists ==
  {s \in UNION {[1..n -> PickFns] : n \in 1..Cardinality(PickFns)} :
     \A i, k \in DOMAIN s : s[i] = s[k] => i = k}

\* the lines a call-hierarchy item reports for its target
PickLines == 1..3

\* lines 54-56: pickBestTarget is applied to the candidates of one outgoing call
PickTarget(cands, tLine) ==
  /\ Len(scans) < MaxScans
  /\ scans' = Append(scans, [cands |-> cands, tLine |-> tLine,
                             out |-> pickBestTarget([line |-> tLine], cands)])
  /\ UNCHANGED <<importDebounce, prior, index, job, lspP, timer, disk, fingerprints, chCache, tasks, stats, batch,
                 cancelled, postCount, lastPost, parseCalls, queryCount, asked, statted, budget,
                 lspWarnedThisSession, imp>>

RECURSIVE AddEdges(_, _, _, _)
\* lines 46-64: one call edge per resolved target, not twice the same edge
AddEdges(fn, outgoing, emit, byFile) ==
  IF outgoing = <<>> THEN emit
  ELSE LET item == Head(outgoing)
           cands == Candidates(byFile, item.uri, simpleName(item.name))
           edge == [from |-> fn.id, to |-> pickBestTarget(item, cands).id,
                    type |-> "call", provenance |-> "hierarchy", confidence |-> 1]
       IN IF cands = <<>> \/ (\E k \in 1..Len(emit) : emit[k] = edge)
          THEN AddEdges(fn, Tail(outgoing), emit, byFile)
          ELSE AddEdges(fn, Tail(outgoing), Append(emit, edge), byFile)

RECURSIVE ResolveLoop(_, _, _, _, _)
\* the for-loop over fnNodes up to its next await: served from chCache while it hits
ResolveLoop(uri, todo, emit, byFile, cache) ==
  IF todo = <<>> THEN [todo |-> <<>>, emit |-> emit]
  ELSE LET fn == Head(todo) IN
       IF ~cache[<<uri, fn.line>>].hit THEN [todo |-> todo, emit |-> emit]
       ELSE ResolveLoop(uri, Tail(todo),
                        AddEdges(fn, cache[<<uri, fn.line>>].calls, emit, byFile),
                        byFile, cache)

\* depviz.crossFileCallsMax, default 5000
crossFileCallsMax == 5000

\* emit.slice(0, Math.max(1, cap))
CapPayloadAt(emit, cap) == SubSeq(emit, 1, Min(Len(emit), Max(1, cap)))
CapPayload(emit) == CapPayloadAt(emit, crossFileCallsMax)

\* lines 69-71: the information message, which names the cap
CapNotice(emit, cap) == IF Len(emit) > cap THEN <<[capped |-> cap]>> ELSE <<>>

\* what the provider reports as outgoing calls of the function at (f, line),
\* given the documents as they are now
OutgoingCalls(f, line, dsk) ==
  IF FnLine(dsk[f]) = line /\ CallsOther(dsk[f])
  THEN LET other == Other(f)
       IN << [uri |-> other, name |-> << "f" >>, line |-> FnLine(dsk[other])] >>
  ELSE <<>>

\* ids of the function nodes present in a Parse Index
FuncIdsOf(idx) ==
  UNION {{idx[f].fns[k].id : k \in 1..Len(idx[f].fns)} : f \in DOMAIN idx}

(***************************************************************************)
(* ImportService.importUri / importText, one action per await.             *)
(***************************************************************************)
DoneTask(out) == [IdleTask EXCEPT !.pc = "done", !.out = out]

\* a returned importText call; the record keeps what it was called with
DoneText(p, text, out) ==
  [IdleTask EXCEPT !.pc = "done", !.out = out, !.kind = "text", !.uri = p, !.text = text]

RECURSIVE NextChild(_, _)
\* the directory loop of importUri (lines 121-126) after a child returned:
\* the next child whose importUri reaches its stat, or uri = "none" when
\* every directory on the stack has returned.  A child in SKIP_DIRS is
\* passed over; with the token cancelled a child's importUri returns at once.
NextChild(stack, canc) ==
  IF stack = <<>> THEN [stack |-> <<>>, uri |-> "none"]
  ELSE LET top == stack[Len(stack)]
           ch == Children(top.u)
           k == top.k + 1
           stepped == [stack EXCEPT ![Len(stack)].k = k]
       IN IF k > Len(ch) THEN NextChild(SubSeq(stack, 1, Len(stack) - 1), canc)
          ELSE IF ch[k] \in SKIP_DIRS \/ canc THEN NextChild(stepped, canc)
          ELSE [stack |-> stepped, uri |-> ch[k]]

\* a token that is never seen cancelled
NeverRequested(hasToken, canc) == FALSE

\* line 117, line 81: token?.isCancellationRequested
isCancellationRequested(hasToken, canc) == hasToken /\ canc

\* an importUri invocation returns; its caller's loop goes on
Continue(t, stack, out) ==
  LET nx == NextChild(stack, isCancellationRequested(tasks[t].inBatch, cancelled))
  IN IF nx.uri = "none"
     THEN /\ tasks' = [tasks EXCEPT ![t] = DoneTask(out)]
          /\ statted' = statted
     ELSE /\ tasks' = [tasks EXCEPT ![t] =
                         [IdleTask EXCEPT !.pc = "stat", !.kind = "uri", !.uri = nx.uri,
                                          !.stack = nx.stack, !.inBatch = tasks[t].inBatch,
                                          !.batchId = tasks[t].batchId]]
          /\ statted' = IF tasks[t].inBatch THEN statted \cup {nx.uri} ELSE statted

Return(t, out) == Continue(t, tasks[t].stack, out)

\* the catch of lines 196-200, in the failing invocation and in each directory
\* invocation above it: every one adds to stats.failed unless the error is the
\* webview's rejection; `counted` is what the throw site added itself
Throw(t, err, counted) ==
  /\ tasks' = [tasks EXCEPT ![t] = DoneTask("failed")]
  /\ stats' = IF tasks[t].inBatch
              THEN [stats EXCEPT !.failed = @ + counted +
                       (IF err = "webview" THEN 0 ELSE Len(tasks[t].stack) + 1)]
              ELSE stats

\* stats && stats.<field>++
Tally(st, field, inBatch) == IF inBatch THEN [st EXCEPT ![field] = @ + 1] ELSE st

\* the comparison of line 144 / 229 never finding equality
UnchangedNever(previous, fingerprint) == FALSE

\* line 144 / 229: previous === fingerprint
Unchanged(previous, fingerprint) == previous = fingerprint

\* lines 119-136: stat (and, for a directory, readDirectory) answered
StatDone(t) ==
  /\ tasks[t].pc = "stat"
  /\ \E ok \in BOOLEAN :
       LET tk == tasks[t]
           u == tk.uri
       IN IF ~ok
          THEN Throw(t, "io", 0) /\ UNCHANGED statted
          ELSE IF u \in Dirs
          THEN Continue(t, Append(tk.stack, [u |-> u, k |-> 0]), "walked") /\ UNCHANGED stats
          ELSE IF TooBig(u)
          THEN Return(t, "skipped") /\ stats' = Tally(stats, "skippedBySize", tk.inBatch)
          ELSE IF SkipExt(u)
          THEN Return(t, "skipped") /\ stats' = Tally(stats, "skippedByExt", tk.inBatch)
          ELSE /\ tasks' = [tasks EXCEPT ![t].pc = "read"]
               /\ UNCHANGED <<stats, statted>>
  /\ UNCHANGED <<importDebounce, prior, imp, scans, lspWarnedThisSession, job, lspP, timer, disk, fingerprints, index, chCache, batch, cancelled, postCount,
                 lastPost, parseCalls, queryCount, asked, budget>>

\* lines 138-151: readFile answered; fingerprint check, invalidate, parse called
ReadDone(t) ==
  /\ tasks[t].pc = "read"
  /\ \E ok \in BOOLEAN :
       LET tk == tasks[t]
           u == tk.uri
           text == disk[u]
           fingerprint == hashString(text)
           key == normalizePath(u)
           previous == fingerprints[key]
       IN IF ~ok
          THEN Throw(t, "io", 0) /\ UNCHANGED <<statted, fingerprints, index, parseCalls>>
          ELSE IF Unchanged(previous, fingerprint)
          THEN Return(t, "unchanged") /\ UNCHANGED <<stats, fingerprints, index, parseCalls>>
          ELSE /\ fingerprints' = [fingerprints EXCEPT ![key] = fingerprint]
               /\ index' = [index EXCEPT ![u] = NoResult]
               /\ parseCalls' = parseCalls + 1
               /\ tasks' = [tasks EXCEPT ![t].pc = "parse", ![t].text = text]
               /\ UNCHANGED <<stats, statted>>
  /\ UNCHANGED <<importDebounce, prior, imp, scans, lspWarnedThisSession, job, lspP, timer, disk, chCache, batch, cancelled, postCount, lastPost, queryCount, asked, budget>>

\* lines 161-163: batchId ? { ...artifacts, batchId } : artifacts
FilePost(u, res, batchId) ==
  [kind |-> "file", uri |-> u, nodes |-> res.fns, edges |-> <<>>,
   batchId |-> batchId, endOfBatch |-> FALSE]

EdgePost(payload) ==
  [kind |-> "xfile", uri |-> "none", nodes |-> <<>>, edges |-> payload,
   batchId |-> NoBatchId, endOfBatch |-> FALSE]

\* an empty delta of the batch that is not marked as its last
EndPostUnmarked(batchId) ==
  [kind |-> "end", uri |-> "none", nodes |-> <<>>, edges |-> <<>>,
   batchId |-> batchId, endOfBatch |-> FALSE]

\* lines 90-93
EndPost(batchId) ==
  [kind |-> "end", uri |-> "none", nodes |-> <<>>, edges |-> <<>>,
   batchId |-> batchId, endOfBatch |-> TRUE]

\* lines 332-341: ImportService.lspWarnedThisSession after maybeWarnLspOnce(msg);
\* the advisory is shown in the call that turns it true
maybeWarnLspOnce(msg, warned) == warned \/ msg \in {"No language server", "timeout"}

\* what parseService.parseFile rejects with: nothing, since parseFile
\* (index.ts 10-45) turns every failure of the provider and the deadline into
\* a result with status nolsp
ParseRejections == {}

\* lines 152-158, 196-200: parseFile rejected
ParseThrown(t, err) ==
  /\ Throw(t, err, 1)
  /\ lspWarnedThisSession' = maybeWarnLspOnce(err, lspWarnedThisSession)
  /\ UNCHANGED <<index, postCount, lastPost>>

\* lines 161-163: parseFile resolved (index.set of part_002); the delta is posted
ParseReturned(t, res) ==
  /\ index' = [index EXCEPT ![tasks[t].uri] = res]
  /\ postCount' = postCount + 1
  /\ lastPost' = FilePost(tasks[t].uri, res, tasks[t].batchId)
  /\ tasks' = [tasks EXCEPT ![t].pc = "post", ![t].res = res]
  /\ UNCHANGED <<stats, lspWarnedThisSession>>

\* lines 149-163: ParseService.parseFile settled
ParseDone(t) ==
  /\ tasks[t].pc = "parse"
  /\ \/ \E status \in Statuses :
          ParseReturned(t, ParseResultOf(tasks[t].uri, tasks[t].text, status))
     \/ \E err \in ParseRejections : ParseThrown(t, err)
  /\ UNCHANGED <<importDebounce, prior, imp, scans, job, lspP, timer, disk, fingerprints, chCache, batch, cancelled,
                 parseCalls, queryCount, asked, statted, budget>>

\* resolveCrossFileCallsForFile from the loop's current position to its next
\* await: a provider query (cache miss), the post of the payload, or its return
AfterLoop(t, r, byFile) ==
  IF r.todo # <<>>
  THEN /\ tasks' = [tasks EXCEPT ![t].pc = "resolve", ![t].snap = byFile,
                                 ![t].todo = r.todo, ![t].emit = r.emit]
       /\ queryCount' = queryCount + 1
       /\ asked' = [asked EXCEPT ![<<tasks[t].uri, Head(r.todo).line>>] = @ + 1]
       /\ UNCHANGED <<postCount, lastPost, statted>>
  ELSE IF CapPayload(r.emit) # <<>>
  THEN /\ tasks' = [tasks EXCEPT ![t].pc = "xpost", ![t].snap = <<>>,
                                 ![t].todo = <<>>, ![t].emit = <<>>]
       /\ postCount' = postCount + 1
       /\ lastPost' = EdgePost(CapPayload(r.emit))
       /\ UNCHANGED <<queryCount, asked, statted>>
  ELSE /\ Return(t, "imported")
       /\ UNCHANGED <<queryCount, asked, postCount, lastPost>>

\* lines 14-21: the file's own functions and the workspace function index
ResolveStart(t) ==
  LET u == tasks[t].uri
      fnNodes == index[u].fns
      byFile == buildWorkspaceFuncIndex(index)
  IN IF fnNodes = <<>>
     THEN Return(t, "imported") /\ UNCHANGED <<queryCount, asked, postCount, lastPost>>
     ELSE AfterLoop(t, ResolveLoop(u, fnNodes, <<>>, byFile, chCache), byFile)

TallyField(status) ==
  IF status = "ok" THEN "importedOk"
  ELSE IF status = "partial" THEN "importedPartial" ELSE "importedNoLsp"

\* lines 163-193: the webview answered the delta
PostDone(t) ==
  /\ tasks[t].pc = "post"
  /\ \E ok \in BOOLEAN :
       LET tk == tasks[t]
       IN IF ~ok
          THEN /\ Throw(t, "webview", 1)
               /\ UNCHANGED <<queryCount, asked, postCount, lastPost, statted>>
          ELSE /\ stats' = IF tk.kind = "uri"
                           THEN Tally(stats, TallyField(tk.res.status), tk.inBatch)
                           ELSE stats
               /\ IF enableXfile /\ tk.res.status # "nolsp"
                  THEN ResolveStart(t)
                  ELSE Return(t, "imported") /\ UNCHANGED <<queryCount, asked, postCount, lastPost>>
  /\ UNCHANGED <<importDebounce, prior, imp, scans, lspWarnedThisSession, job, lspP, timer, disk, fingerprints, index, chCache, batch, cancelled, parseCalls, budget>>

\* lines 33-44: the provider answered prepareCallHierarchy / outgoing calls
QueryDone(t) ==
  /\ tasks[t].pc = "resolve"
  /\ \E answered \in BOOLEAN :
       LET tk == tasks[t]
           fn == Head(tk.todo)
           key == <<tk.uri, fn.line>>
           outgoing == OutgoingCalls(tk.uri, fn.line, disk)
       IN IF ~answered
          THEN /\ chCache' = chCache
               /\ AfterLoop(t, ResolveLoop(tk.uri, Tail(tk.todo), tk.emit, tk.snap, chCache),
                            tk.snap)
          ELSE /\ chCache' = [chCache EXCEPT ![key] = [hit |-> TRUE, calls |-> outgoing]]
               /\ AfterLoop(t, ResolveLoop(tk.uri, Tail(tk.todo),
                                           AddEdges(fn, outgoing, tk.emit, tk.snap),
                                           tk.snap, chCache'),
                            tk.snap)
  /\ UNCHANGED <<importDebounce, prior, imp, scans, lspWarnedThisSession, job, lspP, timer, disk, fingerprints, index, stats, batch, cancelled, parseCalls, budget>>

\* line 73: the webview answered the cross-file edges
XPostDone(t) ==
  /\ tasks[t].pc = "xpost"
  /\ Return(t, "imported")
  /\ UNCHANGED <<importDebounce, prior, imp, scans, lspWarnedThisSession, job, lspP, timer, disk, fingerprints, index, chCache, stats, batch, cancelled, postCount,
                 lastPost, parseCalls, queryCount, asked, budget>>

\* extension.ts onDidSaveTextDocument: importUri(doc.uri, panel), no token, no stats
HookImportUri(p) ==
  /\ budget.hooks > 0
  /\ tasks[0].pc \in {"idle", "done"}
  /\ budget' = [budget EXCEPT !.hooks = @ - 1]
  /\ tasks' = [tasks EXCEPT ![0] = [IdleTask EXCEPT !.pc = "stat", !.kind = "uri", !.uri = p]]
  /\ UNCHANGED <<importDebounce, prior, imp, scans, lspWarnedThisSession, job, lspP, timer, disk, fingerprints, index, chCache, stats, batch, cancelled, postCount,
                 lastPost, parseCalls, queryCount, asked, statted>>

\* no timer is pending and no document has been saved
IdleDebounce == [doc |-> "none", owed |-> {}, saves |-> 0]

\* extension.ts 93-108, onDidSaveTextDocument with a panel open and the document
\* in the workspace: the pending timer is cleared and one for this document set
SaveDoc(p) ==
  /\ importDebounce.saves < MaxSaves
  /\ importDebounce' = [doc |-> p, owed |-> importDebounce.owed \cup {p},
                        saves |-> importDebounce.saves + 1]
  /\ UNCHANGED <<prior, imp, scans, lspWarnedThisSession, job, lspP, timer, disk, fingerprints,
                 index, chCache, tasks, stats, batch, cancelled, postCount, lastPost, parseCalls,
                 queryCount, asked, statted, budget>>

\* extension.ts 105-107: 250 ms passed without another save; the callback calls
\* importUri(doc.uri, panel) for the document the timer was set for
DebounceFires ==
  /\ importDebounce.doc # "none"
  /\ tasks[0].pc \in {"idle", "done"}
  /\ importDebounce' = [importDebounce EXCEPT !.doc = "none", !.owed = @ \ {importDebounce.doc}]
  /\ tasks' = [tasks EXCEPT ![0] = [IdleTask EXCEPT !.pc = "stat", !.kind = "uri",
                                                    !.uri = importDebounce.doc]]
  /\ UNCHANGED <<prior, imp, scans, lspWarnedThisSession, job, lspP, timer, disk, fingerprints,
                 index, chCache, stats, batch, cancelled, postCount, lastPost, parseCalls,
                 queryCount, asked, statted, budget>>

\* extension.ts onDidChangeTextDocument: importText(uri, text, panel), lines 212-237
HookImportText(p, text) ==
  /\ budget.hooks > 0
  /\ tasks[0].pc \in {"idle", "done"}
  /\ budget' = [budget EXCEPT !.hooks = @ - 1]
  /\ LET fingerprint == hashString(text)
         key == normalizePath(p)
         previous == fingerprints[key]
     IN IF TooBig(p) \/ SkipExt(p)
        THEN /\ tasks' = [tasks EXCEPT ![0] = DoneText(p, text, "skipped")]
             /\ UNCHANGED <<fingerprints, index, parseCalls>>
        ELSE IF Unchanged(previous, fingerprint)
        THEN /\ tasks' = [tasks EXCEPT ![0] = DoneText(p, text, "unchanged")]
             /\ UNCHANGED <<fingerprints, index, parseCalls>>
        ELSE /\ fingerprints' = [fingerprints EXCEPT ![key] = fingerprint]
             /\ index' = [index EXCEPT ![p] = NoResult]
             /\ parseCalls' = parseCalls + 1
             /\ tasks' = [tasks EXCEPT ![0] =
                            [IdleTask EXCEPT !.pc = "parse", !.kind = "text", !.uri = p,
                                             !.text = text]]
  /\ UNCHANGED <<importDebounce, prior, imp, scans, lspWarnedThisSession, job, lspP, timer, disk, chCache, stats, batch, cancelled, postCount, lastPost, queryCount, asked,
                 statted>>

\* an eviction that forgets the Parse Index entry and keeps the fingerprint
EvictIndexOnly(p) ==
  /\ budget.evicts > 0
  /\ budget' = [budget EXCEPT !.evicts = @ - 1]
  /\ index' = [index EXCEPT ![p] = NoResult]
  /\ UNCHANGED <<importDebounce, prior, imp, scans, lspWarnedThisSession, job, lspP, timer, disk, chCache, tasks, stats,
                 batch, cancelled, postCount, lastPost, parseCalls, queryCount, asked, statted,
                 fingerprints>>

\* ImportService.evictFingerprint (message evictFingerprint)
EvictFingerprint(p) ==
  /\ budget.evicts > 0
  /\ budget' = [budget EXCEPT !.evicts = @ - 1]
  /\ fingerprints' = [fingerprints EXCEPT ![normalizePath(p)] = NoFingerprint]
  /\ index' = [index EXCEPT ![p] = NoResult]
  /\ UNCHANGED <<importDebounce, prior, imp, scans, lspWarnedThisSession, job, lspP, timer, disk, chCache, tasks, stats, batch, cancelled, postCount, lastPost,
                 parseCalls, queryCount, asked, statted>>

\* message clearCanvas: resetFingerprints and clearCrossFileCache
ClearCanvas ==
  /\ budget.clears > 0
  /\ budget' = [budget EXCEPT !.clears = @ - 1]
  /\ fingerprints' = [f \in DOMAIN fingerprints |-> NoFingerprint]
  /\ chCache' = [k \in DOMAIN chCache |-> NoEntry]
  /\ asked' = [k \in DOMAIN asked |-> 0]
  /\ UNCHANGED <<importDebounce, prior, imp, scans, lspWarnedThisSession, job, lspP, timer, disk, index, tasks, stats, batch,
                 cancelled, postCount, lastPost, parseCalls, queryCount, statted>>

\* the user edits and saves a file: its content on disk becomes v
EditDiskTo(p, v) ==
  /\ budget.edits > 0
  /\ v # disk[p]
  /\ budget' = [budget EXCEPT !.edits = @ - 1]
  /\ disk' = [disk EXCEPT ![p] = v]
  /\ UNCHANGED <<importDebounce, prior, imp, scans, lspWarnedThisSession, job, lspP, timer, fingerprints, index, chCache, tasks, stats, batch,
                 cancelled, postCount, lastPost, parseCalls, queryCount, asked, statted>>

\* the user edits and saves a file: its content on disk changes
EditDisk(p) ==
  /\ budget.edits > 0
  /\ budget' = [budget EXCEPT !.edits = @ - 1]
  /\ \E v \in Versions \ {disk[p]} : disk' = [disk EXCEPT ![p] = v]
  /\ UNCHANGED <<importDebounce, prior, imp, scans, lspWarnedThisSession, job, lspP, timer, fingerprints, index, chCache, tasks, stats, batch,
                 cancelled, postCount, lastPost, parseCalls, queryCount, asked, statted>>

(***************************************************************************)
(* ImportService.importMany                                                *)
(***************************************************************************)
File(u) == [u |-> u, slash |-> FALSE]     \* a root whose path does not end in "/"
Glob(u) == [u |-> u, slash |-> TRUE]      \* a root whose path ends in "/"

\* more files than one slice holds: batchSize times m, then b
NineFiles == [k \in 1..(batchSize + 1) |-> IF k <= batchSize THEN File("m") ELSE File("b")]

RootChoices ==
  { <<File("a")>>, <<File("a"), File("a")>>, <<File("a"), File("b")>>,
    <<File("b"), File("a"), File("b")>>, <<File("d")>>, <<Glob("d")>>,
    <<File("b"), Glob("e")>>, NineFiles }

Uris(roots) == [k \in 1..Len(roots) |-> roots[k].u]

RECURSIVE PushUpTo(_, _, _)
\* lines 315-318: push candidates until out holds maxFiles
PushUpTo(out, scoped, maxFiles) ==
  IF scoped = <<>> \/ Len(out) >= maxFiles THEN out
  ELSE PushUpTo(Append(out, Head(scoped)), Tail(scoped), maxFiles)

RECURSIVE ExpandDirs(_, _, _)
\* lines 301-322, with the default single include glob
ExpandDirs(out, dirs, maxFiles) ==
  IF dirs = <<>> THEN out
  ELSE LET dir == Head(dirs)
           limit == Max(1, maxFiles - Len(out))
           found == SubSeq(WsFiles, 1, Min(limit, Len(WsFiles)))
           scoped == SelectSeq(found, LAMBDA f : f \in Under(dir))
           pushed == PushUpTo(out, scoped, maxFiles)
       IN IF Len(pushed) >= maxFiles THEN pushed
          ELSE ExpandDirs(pushed, Tail(dirs), maxFiles)

findFilesFromRoots(roots, maxFiles) ==
  LET files == SelectSeq(roots, LAMBDA r : ~r.slash)
      dirs == SelectSeq(roots, LAMBDA r : r.slash)
  IN ExpandDirs(Uris(files), Uris(dirs), maxFiles)

\* line 82: capped.slice(i, i + batchSize)
SliceOf(files, i) == SubSeq(files, i + 1, Min(Len(files), i + batchSize))

\* lines 48-83: the list is found and capped, the first slice started
StartBatch(roots, hardCap) ==
  /\ budget.batches > 0
  /\ batch.pc \in {"idle", "done"}
  /\ \A t \in TaskIds \ {0} : tasks[t].pc \in {"idle", "done"}
  /\ budget' = [budget EXCEPT !.batches = @ - 1]
  /\ LET maxFiles == Max(1, hardCap)
         batchId == MaxBatches - budget.batches + 1     \* line 78: a fresh identifier
         files == findFilesFromRoots(roots, maxFiles)
         totalFound == Len(files)
         capped == SubSeq(files, 1, Min(maxFiles, totalFound))
     IN /\ batch' = [pc |-> IF capped = <<>> THEN "end" ELSE "slice", id |-> batchId,
                     files |-> capped, i |-> 0, maxFiles |-> maxFiles, roots |-> roots,
                     totalFound |-> totalFound,
                     told |-> IF totalFound > maxFiles THEN <<totalFound, maxFiles>> ELSE <<>>,
                     summary |-> <<>>]
        /\ tasks' = [t \in TaskIds |->
                       IF t \in 1..Len(SliceOf(capped, 0))
                       THEN [IdleTask EXCEPT !.pc = "stat", !.kind = "uri",
                                             !.uri = SliceOf(capped, 0)[t], !.inBatch = TRUE,
                                             !.batchId = batchId]
                       ELSE IF t = 0 THEN tasks[t] ELSE IdleTask]
        /\ statted' = statted \cup {capped[k] : k \in 1..Len(SliceOf(capped, 0))}
        /\ IF capped = <<>>
           THEN postCount' = postCount + 1 /\ lastPost' = EndPost(batchId)
           ELSE UNCHANGED <<postCount, lastPost>>
  /\ stats' = NoStats
  /\ cancelled' = FALSE
  /\ UNCHANGED <<importDebounce, prior, imp, scans, lspWarnedThisSession, job, lspP, timer, disk, fingerprints, index, chCache, parseCalls, queryCount, asked>>

\* a combinator that settles as soon as one of the n invocations has
PromiseAny(n) == \E t \in 1..n : tasks[t].pc = "done"

\* line 83: Promise.all over the slice, each invocation with its own catch, so
\* it settles when every one of the n invocations has returned or thrown
PromiseAll(n) == \A t \in 1..n : tasks[t].pc = "done"

\* lines 83-94: every importUri of the slice settled; next slice, or the endOfBatch post
SliceDone ==
  /\ batch.pc = "slice"
  /\ PromiseAll(Len(SliceOf(batch.files, batch.i)))
  /\ LET i == batch.i + batchSize
     IN IF i < Len(batch.files) /\ ~isCancellationRequested(TRUE, cancelled)
        THEN /\ batch' = [batch EXCEPT !.i = i]
             /\ tasks' = [t \in TaskIds |->
                            IF t \in 1..Len(SliceOf(batch.files, i))
                            THEN [IdleTask EXCEPT !.pc = "stat", !.kind = "uri",
                                                  !.uri = SliceOf(batch.files, i)[t],
                                                  !.inBatch = TRUE, !.batchId = batch.id]
                            ELSE IF t = 0 THEN tasks[t] ELSE IdleTask]
             /\ statted' = statted \cup
                             {SliceOf(batch.files, i)[k] : k \in 1..Len(SliceOf(batch.files, i))}
             /\ UNCHANGED <<postCount, lastPost>>
        ELSE /\ batch' = [batch EXCEPT !.pc = "end"]
             /\ tasks' = [t \in TaskIds |-> IF t = 0 THEN tasks[t] ELSE IdleTask]
             /\ postCount' = postCount + 1
             /\ lastPost' = EndPost(batch.id)
             /\ UNCHANGED statted
  /\ UNCHANGED <<importDebounce, prior, imp, scans, lspWarnedThisSession, job, lspP, timer, disk, fingerprints, index, chCache, stats, cancelled, parseCalls,
                 queryCount, asked, budget>>

\* lines 96-104: the summary of the six counters is shown
BatchEnd ==
  /\ batch.pc = "end"
  /\ batch' = [batch EXCEPT !.pc = "done", !.summary = <<stats>>]
  /\ UNCHANGED <<importDebounce, prior, imp, scans, lspWarnedThisSession, job, lspP, timer, disk, fingerprints, index, chCache, tasks, stats, cancelled, postCount,
                 lastPost, parseCalls, queryCount, asked, statted, budget>>

\* the user presses Cancel on the progress notification
Cancel ==
  /\ batch.pc = "slice"
  /\ ~cancelled
  /\ cancelled' = TRUE
  /\ UNCHANGED <<importDebounce, prior, imp, scans, lspWarnedThisSession, job, lspP, timer, disk, fingerprints, index, chCache, tasks, stats, batch, postCount,
                 lastPost, parseCalls, queryCount, asked, statted, budget>>

(***************************************************************************)
(* Source text.  A text is the sequence of its lexical pieces: keywords,   *)
(* identifiers, quotes, comment markers, separators, blanks, newlines and  *)
(* "code" (a run of characters that holds none of the others).  The        *)
(* regular expressions of the code are applied to these pieces.            *)
(***************************************************************************)
Keywords == {"import", "from", "require", "using", "use", "def", "class"}
Idents == {"x", "y", "a", "b", "c", "foo", "bar", "baz", "Foo", "K", "pkg", "ws", "src"}
Words == Keywords \cup Idents                       \* words: a letter, then word characters
SOURCE_EXTS == {".ts", ".tsx", ".mjs", ".cjs", ".js", ".jsx", ".py", ".go", ".rs", ".rb",
                ".php", ".java", ".kt", ".cs"}
DotToks == {".", ".."} \cup SOURCE_EXTS            \* pieces made of dots and word characters
Ws == {" ", "\n"}                                   \* white space
Blank == {" "}                                      \* blank or tab
Backtick == "backtick"                              \* the template-literal quote
JsQuotes == {"'", "\""}                             \* the quotes of the import patterns
Markers == {"//", "#", "--", ";"}                   \* what starts a line comment

\* the least member of a set of positions, `none` when it is empty
Least(c, none) == IF c = {} THEN none ELSE CHOOSE k \in c : \A j \in c : k <= j

\* the first position >= p of s holding a piece of "set", 0 when there is none
FirstIn(s, p, set) == Least({k \in p..Len(s) : s[k] \in set}, 0)

\* the first position >= p of s holding a piece outside "set" (past the end if none)
SkipAll(s, p, set) == Least({k \in p..Len(s) : s[k] \notin set}, Max(p, Len(s) + 1))

At(s, p) == IF p \in 1..Len(s) THEN s[p] ELSE "<eof>"
LineStart(s, p) == p = 1 \/ At(s, p - 1) = "\n"    \* the start of a line
Newlines(m) == SelectSeq(m, LAMBDA t : t = "\n")
DropFrom(s, p) == SubSeq(s, p, Len(s))

RECURSIVE StripBlock(_, _, _)
\* text.ts 38-42: a block comment becomes the newlines it holds
StripBlock(s, open, close) ==
  IF s = <<>> THEN <<>>
  ELSE LET c == FirstIn(s, 2, {close})
       IN IF Head(s) = open /\ c # 0
          THEN Newlines(SubSeq(s, 1, c)) \o StripBlock(DropFrom(s, c + 1), open, close)
          ELSE <<Head(s)>> \o StripBlock(Tail(s), open, close)

RECURSIVE CommentPass(_, _, _)
\* text.ts 45-51: a line comment goes (its leading blank stays), a string stays
CommentPass(s, p, out) ==
  IF p > Len(s) THEN out
  ELSE LET eol == FirstIn(s \o <<"\n">>, p, {"\n"})
           close == FirstIn(s, p + 1, {s[p]})
       IN IF LineStart(s, p) /\ s[p] \in Markers
          THEN CommentPass(s, eol, out)
          ELSE IF s[p] \in Blank /\ At(s, p + 1) \in Markers
          THEN CommentPass(s, eol, Append(out, s[p]))
          ELSE IF s[p] \in {"\"", "'", Backtick} /\ close # 0
          THEN CommentPass(s, close + 1, out \o SubSeq(s, p, close))
          ELSE CommentPass(s, p + 1, Append(out, s[p]))

RECURSIVE WipeStrings(_, _)
\* text.ts 54-56: every string literal in quote q becomes the empty literal
WipeStrings(s, q) ==
  IF s = <<>> THEN <<>>
  ELSE LET c == FirstIn(s, 2, {q})
       IN IF Head(s) = q /\ c # 0
          THEN <<q, q>> \o WipeStrings(DropFrom(s, c + 1), q)
          ELSE <<Head(s)>> \o WipeStrings(Tail(s), q)

stripStringsAndComments(src) ==
  WipeStrings(WipeStrings(WipeStrings(
    CommentPass(StripBlock(StripBlock(src, "/*", "*/"), "<!--", "-->"), 1, <<>>),
    "\""), "'"), Backtick)

NoMatch == [end |-> 0, cap |-> <<>>]
Match(s, from, to, end) == [end |-> end, cap |-> SubSeq(s, from, to)]

\* line start, blanks, a keyword, blanks: the position after them, 0 when p does not match
AfterKeyword(s, p, kws) ==
  LET q == SkipAll(s, p, Ws)
  IN IF LineStart(s, p) /\ At(s, q) \in kws /\ At(s, q + 1) \in Ws
     THEN SkipAll(s, q + 1, Ws) ELSE 0

\* line 83: import, then anything up to the first quote, a quoted target
JsImportFrom(s, n) ==
  LET q1 == FirstIn(s, n, JsQuotes)
      q2 == FirstIn(s, q1 + 1, JsQuotes)
  IN IF n # 0 /\ q1 # 0 /\ q2 > q1 + 1 THEN Match(s, q1 + 1, q2 - 1, q2) ELSE NoMatch

\* line 84: require( quoted target )
RequireAt(s, p) ==
  LET q1 == SkipAll(s, p + 2, Ws)
      q2 == FirstIn(s, q1 + 1, JsQuotes)
      e == SkipAll(s, q2 + 1, Ws)
  IN IF At(s, p) = "require" /\ At(s, p + 1) = "(" /\ At(s, q1) \in JsQuotes
        /\ q2 > q1 + 1 /\ At(s, e) = ")"
     THEN Match(s, q1 + 1, q2 - 1, e) ELSE NoMatch

\* line 80: from dotted-name import
PyFromFrom(s, n) ==
  LET e == SkipAll(s, n, Words \cup DotToks)
  IN IF n # 0 /\ At(s, n) \in Words /\ At(s, e) \in Ws /\ At(s, SkipAll(s, e, Ws)) = "import"
     THEN Match(s, n, e - 1, SkipAll(s, e, Ws)) ELSE NoMatch

\* line 81: import dotted-name
PyImportFrom(s, n) ==
  LET e == SkipAll(s, n, Words \cup DotToks)
  IN IF n # 0 /\ At(s, n) \in Words THEN Match(s, n, e - 1, e - 1) ELSE NoMatch

\* line 87: import or using, a run of word characters and dots
JavaImportFrom(s, n) ==
  LET e == SkipAll(s, n, Words \cup DotToks)
  IN IF n # 0 /\ e > n THEN Match(s, n, e - 1, e - 1) ELSE NoMatch

\* line 88: use, a run of word characters and colons; "::" is then made "/"
RustUseFrom(s, n) ==
  LET e == SkipAll(s, n, Words \cup {"::", ":"})
  IN IF n # 0 /\ e > n
     THEN [end |-> e - 1,
           cap |-> [k \in 1..(e - n) |-> IF s[n + k - 1] = "::" THEN "/" ELSE s[n + k - 1]]]
     ELSE NoMatch

\* lspParser.ts 160-161: class or def, a name, then one of the closing pieces
PyDeclFrom(s, n, closers) ==
  IF n # 0 /\ At(s, n) \in Words /\ At(s, SkipAll(s, n + 1, Ws)) \in closers
  THEN Match(s, n, n, SkipAll(s, n + 1, Ws)) ELSE NoMatch

\* one match of regular expression "kind" that starts at position p of s
MatchAt(kind, s, p) ==
  CASE kind = "jsImport" -> JsImportFrom(s, AfterKeyword(s, p, {"import"}))
    [] kind = "require" -> RequireAt(s, p)
    [] kind = "pyFrom" -> PyFromFrom(s, AfterKeyword(s, p, {"from"}))
    [] kind = "pyImport" -> PyImportFrom(s, AfterKeyword(s, p, {"import"}))
    [] kind = "javaImport" -> JavaImportFrom(s, AfterKeyword(s, p, {"import", "using"}))
    [] kind = "rustUse" -> RustUseFrom(s, AfterKeyword(s, p, {"use"}))
    [] kind = "pyClass" -> PyDeclFrom(s, AfterKeyword(s, p, {"class"}), {":", "("})
    [] kind = "pyDef" -> PyDeclFrom(s, AfterKeyword(s, p, {"def"}), {"("})

RECURSIVE MatchAll(_, _, _, _)
RECURSIVE MatchNext(_, _, _, _, _)
\* every match of "kind" in s, leftmost first, none overlapping: what it
\* captured and where it started
MatchAll(kind, s, p, acc) ==
  IF p > Len(s) THEN acc ELSE MatchNext(kind, s, p, acc, MatchAt(kind, s, p))

MatchNext(kind, s, p, acc, m) ==
  IF m.end = 0 THEN MatchAll(kind, s, p + 1, acc)
  ELSE MatchAll(kind, s, m.end + 1, Append(acc, [cap |-> m.cap, index |-> p]))

CapsOf(ms) == [k \in 1..Len(ms) |-> ms[k].cap]
Captures(kind, s) == CapsOf(MatchAll(kind, s, 1, <<>>))

RECURSIVE Dedupe(_, _)
\* insertion into a Set<string>: the first occurrence keeps its place
Dedupe(seq, acc) ==
  IF seq = <<>> THEN acc
  ELSE IF \E k \in 1..Len(acc) : acc[k] = Head(seq) THEN Dedupe(Tail(seq), acc)
  ELSE Dedupe(Tail(seq), Append(acc, Head(seq)))

RECURSIVE CollapseSlashes(_)
\* text.ts 80: runs of slashes collapse to one
CollapseSlashes(p) ==
  IF Len(p) < 2 THEN p
  ELSE IF p[1] = "/" /\ p[2] = "/" THEN CollapseSlashes(Tail(p))
  ELSE <<Head(p)>> \o CollapseSlashes(Tail(p))

\* text.ts 81: a leading ./ is dropped
StripDotSlash(p) == IF Len(p) >= 2 /\ p[1] = "." /\ p[2] = "/" THEN DropFrom(p, 3) ELSE p
\* text.ts 82: leading slashes are dropped
StripLeadingSlashes(p) == DropFrom(p, SkipAll(p, 1, {"/"}))
\* text.ts 84: a final source-file extension is dropped
StripSourceExt(p) ==
  IF p # <<>> /\ p[Len(p)] \in SOURCE_EXTS THEN SubSeq(p, 1, Len(p) - 1) ELSE p

\* text.ts 76: everything before the last slash
DirOf(p) == SubSeq(p, 1, -Least({-k : k \in {j \in 1..Len(p) : p[j] = "/"}}, 0) - 1)

resolveImportLabelByText(fromFile, spec) ==
  IF spec # <<>> /\ Head(spec) \in DotToks \cup {"/"}
  THEN StripSourceExt(StripLeadingSlashes(StripDotSlash(CollapseSlashes(
         normalizePosixPath(DirOf(normalizePosixPath(fromFile)) \o <<"/">> \o spec)))))
  ELSE spec

\* REL of line 94: the label starts with /, ./ or ../
REL(label0) ==
  \/ At(label0, 1) \in {"/", "\\"}
  \/ At(label0, 1) \in {".", ".."} /\ At(label0, 2) \in {"/", "\\"}

\* vscode.workspace.asRelativePath(uri, false) with the one workspace folder /ws:
\* the path below the folder, its separators as they are in fsPath
WorkspaceFolder == <<"/", "ws", "/">>
Seps == {"/", "\\"}
asRelativePath(fsPath) ==
  IF /\ Len(fsPath) > Len(WorkspaceFolder)
     /\ \A k \in 1..Len(WorkspaceFolder) :
          fsPath[k] = WorkspaceFolder[k] \/ (fsPath[k] \in Seps /\ WorkspaceFolder[k] \in Seps)
  THEN DropFrom(fsPath, Len(WorkspaceFolder) + 1) ELSE fsPath

ImportModes == {"relative", "all", "off"}

\* fsPath.toLowerCase().endsWith('.py')
IsPy(fsPath) == fsPath # <<>> /\ fsPath[Len(fsPath)] = ".py"

\* lines 79-90: the targets collected from the cleaned text, in insertion order
TargetsOf(cleaned, isPy, mode) ==
  Dedupe(IF isPy
         THEN Captures("pyFrom", cleaned) \o Captures("pyImport", cleaned)
         ELSE Captures("jsImport", cleaned) \o Captures("require", cleaned)
              \o (IF mode = "all"
                  THEN Captures("javaImport", cleaned) \o Captures("rustUse", cleaned)
                  ELSE <<>>),
         <<>>)

\* lines 75-90
ImportTargets(text, fromFsPath, mode) ==
  TargetsOf(stripStringsAndComments(text), IsPy(fromFsPath), mode)

\* a || b on strings: the empty string is falsy
OrElse(r, raw) == IF r = <<>> THEN raw ELSE r
\* line 98: resolveImportLabelByText(fromFsPath, raw) || raw
Label0(fromFsPath, raw) == OrElse(resolveImportLabelByText(fromFsPath, raw), raw)
\* line 99
LabelOf(label0) == StripLeadingSlashes(StripDotSlash(normalizePosixPath(label0)))

ImportEdge(moduleId, toId) ==
  [from |-> moduleId, to |-> toId, type |-> "import", provenance |-> "lsp",
   confidence |-> 1, heuristic |-> <<>>]

\* a node of the graph; an absent field is the empty sequence
Node(id, kind, label) ==
  [id |-> id, kind |-> kind, label |-> label, parent |-> <<>>, fsPath |-> <<>>,
   source |-> <<>>, collapsed |-> <<>>, docked |-> <<>>, line |-> <<>>,
   lspStatus |-> <<>>, heuristicCalls |-> <<>>]

GhostNode(toId, label) ==
  [Node(toId, "module", label) EXCEPT !.collapsed = <<TRUE>>, !.heuristicCalls = <<FALSE>>]

\* an import loop that pushes the edge and no ghost for its target
AddImportEdgeOnly(acc, moduleId, toId, label) ==
  [edges |-> Append(acc.edges, ImportEdge(moduleId, toId)), ghosts |-> acc.ghosts]

\* lines 103-115: the edge, and the ghost unless one with that id is there
AddImport(acc, moduleId, toId, label) ==
  [edges |-> Append(acc.edges, ImportEdge(moduleId, toId)),
   ghosts |-> IF \E k \in 1..Len(acc.ghosts) : acc.ghosts[k].id = toId
              THEN acc.ghosts ELSE Append(acc.ghosts, GhostNode(toId, label))]

\* lines 99-115 for one target
ImportOne(acc, moduleId, label0, label, mode) ==
  IF mode = "relative" /\ ~REL(label0) THEN acc
  ELSE AddImport(acc, moduleId, makeModuleId(label), label)

ImportStep(acc, moduleId, label0, mode) == ImportOne(acc, moduleId, label0, LabelOf(label0), mode)

RECURSIVE ImportLoop(_, _, _, _, _)
\* lines 96-116
ImportLoop(targets, moduleId, fromFsPath, mode, acc) ==
  IF targets = <<>> THEN acc
  ELSE ImportLoop(Tail(targets), moduleId, fromFsPath, mode,
                  ImportStep(acc, moduleId, Label0(fromFsPath, Head(targets)), mode))

staticImportArtifacts(moduleId, text, fromFsPath, mode) ==
  IF mode = "off" THEN [edges |-> <<>>, ghosts |-> <<>>]
  ELSE ImportLoop(ImportTargets(text, fromFsPath, mode), moduleId, fromFsPath, mode,
                  [edges |-> <<>>, ghosts |-> <<>>])

(***************************************************************************)
(* The files parseFile is given in SpecParse: path, language, text, and    *)
(* what the language server knows about them (the document symbols with    *)
(* their lines, and the outgoing calls of each function).  Lines count     *)
(* from 0.  b.ts, b.py and pkg/b.py exist in the workspace as well.        *)
(***************************************************************************)
Sym(name, kind, line, children) ==
  [name |-> name, kind |-> kind, line |-> line, children |-> children, containerName |-> <<>>]

\* an outgoing call the provider reports: the file, name and selection line of
\* its target; Call is a call to a function of a itself
CallInto(file, name, line) == [file |-> file, name |-> name, line |-> line]
Call(name, line) == CallInto("a", name, line)

\* src/a.ts:  import x from './b';  class Foo { bar() { baz() } }  function baz() {}
SrcTsImport ==
  [file |-> "a", fsPath |-> <<"/", "ws", "/", "src", "/", "a", ".ts">>, languageId |-> "typescript",
   text |-> <<"import", " ", "x", " ", "from", " ", "'", ".", "/", "b", "'", ";", "\n",
              "code", "\n", "code", "\n", "code", "\n">>,
   refers |-> <<"/", "ws", "/", "src", "/", "b", ".ts">>,
   symbols |-> <<Sym("Foo", "Class", 1, <<Sym("bar", "Method", 2, <<>>)>>),
                 Sym("baz", "Function", 3, <<>>)>>,
   calls |-> <<[from |-> 2, items |-> <<Call(<<"baz">>, <<3>>)>>]>>]

\* src/a.ts:  // import y from './c'   const b = require("./b");  function foo() {}
SrcTsRequire ==
  [file |-> "a", fsPath |-> <<"/", "ws", "/", "src", "/", "a", ".ts">>, languageId |-> "typescript",
   text |-> <<"//", " ", "import", " ", "y", " ", "from", " ", "'", ".", "/", "c", "'", "\n",
              "code", " ", "require", "(", "\"", ".", "/", "b", "\"", ")", ";", "\n",
              "code", "\n">>,
   refers |-> <<"/", "ws", "/", "src", "/", "b", ".ts">>,
   symbols |-> <<Sym("foo", "Function", 2, <<>>)>>,
   calls |-> <<[from |-> 2, items |-> <<>>]>>]

\* a.py:  import b   def foo(): pass   def bar(): foo()   class K: ...
SrcPyImport ==
  [file |-> "a", fsPath |-> <<"/", "ws", "/", "a", ".py">>, languageId |-> "python",
   text |-> <<"import", " ", "b", "\n",
              "def", " ", "foo", "(", "code", "\n",
              "def", " ", "bar", "(", "code", "\n",
              "class", " ", "K", ":", "\n">>,
   refers |-> <<"/", "ws", "/", "b", ".py">>,
   symbols |-> <<Sym("foo", "Function", 1, <<>>), Sym("bar", "Function", 2, <<>>),
                 Sym("K", "Class", 3, <<>>)>>,
   calls |-> <<[from |-> 2, items |-> <<Call(<<"foo">>, <<1>>)>>]>>]

\* pkg/a.py:  from pkg.b import x   (no function, no class)
SrcPyFrom ==
  [file |-> "a", fsPath |-> <<"/", "ws", "/", "pkg", "/", "a", ".py">>, languageId |-> "python",
   text |-> <<"from", " ", "pkg", ".", "b", " ", "import", " ", "x", "\n", "code", "\n">>,
   refers |-> <<"/", "ws", "/", "pkg", "/", "b", ".py">>,
   symbols |-> <<>>,
   calls |-> <<>>]

Sources == {SrcTsImport, SrcTsRequire, SrcPyImport, SrcPyFrom}

\* src/a.ts:  import { baz } from './b';  function foo() { baz() }
\*            function qux() { foo(); qux() }
\* where baz is declared in b.ts, on the line that qux has in a.ts
SrcTsCallsOut ==
  [file |-> "a", fsPath |-> <<"/", "ws", "/", "src", "/", "a", ".ts">>, languageId |-> "typescript",
   text |-> <<"import", " ", "x", " ", "from", " ", "'", ".", "/", "b", "'", ";", "\n",
              "code", "\n", "code", "\n", "code", "\n">>,
   refers |-> <<"/", "ws", "/", "src", "/", "b", ".ts">>,
   symbols |-> <<Sym("foo", "Function", 1, <<>>), Sym("qux", "Function", 3, <<>>)>>,
   calls |-> <<[from |-> 1, items |-> <<CallInto("b", <<"baz">>, <<3>>)>>],
               [from |-> 3, items |-> <<Call(<<"foo">>, <<1>>), Call(<<"qux">>, <<3>>)>>]>>]

CallSources == {SrcTsImport, SrcTsCallsOut, SrcPyImport}

\* a.py:  class K:  x = 1     (a class without methods, no function)
SrcPyClassOnly ==
  [file |-> "a", fsPath |-> <<"/", "ws", "/", "a", ".py">>, languageId |-> "python",
   text |-> <<"class", " ", "K", ":", "\n", "code", "\n">>,
   refers |-> <<>>,
   symbols |-> <<Sym("K", "Class", 0, <<>>)>>,
   calls |-> <<>>]

\* src/a.ts:  class Foo { bar() {} }  function baz() {}
\* from a server that answers with SymbolInformation in which the method
\* comes before its class
SrcTsFlatLate ==
  [file |-> "a", fsPath |-> <<"/", "ws", "/", "src", "/", "a", ".ts">>, languageId |-> "typescript",
   text |-> <<"code", "\n", "code", "\n", "code", "\n">>,
   refers |-> <<>>,
   symbols |-> <<[Sym("bar", "Method", 1, <<>>) EXCEPT !.containerName = <<"Foo">>],
                 Sym("Foo", "Class", 0, <<>>),
                 Sym("baz", "Function", 2, <<>>)>>,
   calls |-> <<>>]

ShapeSources == {SrcTsImport, SrcPyImport, SrcPyFrom, SrcPyClassOnly, SrcTsFlatLate}

RECURSIVE FlatInfos(_, _)
\* the same symbols as a flat SymbolInformation list: no children, a container name
FlatInfos(symbols, container) ==
  IF symbols = <<>> THEN <<>>
  ELSE LET s == Head(symbols)
       IN <<[s EXCEPT !.children = <<>>,
                      !.containerName = IF container = <<>> THEN @ ELSE container]>>
          \o FlatInfos(s.children, <<s.name>>) \o FlatInfos(Tail(symbols), container)

SymbolAnswers == {"throw", "nothing", "malformed", "tree", "flat"}

\* asDocumentSymbols of what executeDocumentSymbolProvider answered
asDocumentSymbols(src, answer) ==
  IF answer = "tree" THEN src.symbols
  ELSE IF answer = "flat" THEN FlatInfos(src.symbols, <<>>)
  ELSE <<>>

Diag(message) == [severity |-> "warn", message |-> message]

\* lspParser.ts 27-29: the module id of the file
ModuleIdOf(src) == makeModuleId(normalizePosixPath(asRelativePath(src.fsPath)))

\* lspParser.ts 31-38 and index.ts 48-58: the module node of the file
ModuleNode(src) ==
  [Node(ModuleIdOf(src), "module", asRelativePath(src.fsPath))
     EXCEPT !.fsPath = src.fsPath, !.source = <<src.text>>, !.collapsed = <<TRUE>>]

moduleOnlyNode(src) == ModuleNode(src)

\* lines 65-76 and 168-177
ClassNode(src, className, line) ==
  [Node(makeClassId(asRelativePath(src.fsPath), className), "class", <<className>>)
     EXCEPT !.parent = <<ModuleIdOf(src)>>,
            !.docked = <<TRUE>>, !.fsPath = src.fsPath, !.line = <<line>>]

\* addFunction, lines 56-59
Fn(src, name, line, parent) ==
  [id |-> makeFuncId(asRelativePath(src.fsPath), name, line), name |-> name,
   start |-> line, parent |-> parent]

\* lines 102-113
FuncNodeOf(src, fn) ==
  [Node(fn.id, "func", fn.name)
     EXCEPT !.parent = <<fn.parent>>, !.docked = <<TRUE>>, !.fsPath = src.fsPath,
            !.line = <<fn.start>>]

\* lines 63-77: a class not seen before gets its node
AddClass(src, symbol, acc) ==
  IF symbol.name \in acc.classIds THEN acc
  ELSE [acc EXCEPT !.classIds = @ \cup {symbol.name},
                   !.nodes = Append(@, ClassNode(src, symbol.name, symbol.line))]

\* lines 84-86: the function under its class when that class was seen
AddFn(src, symbol, clsName, acc) ==
  [acc EXCEPT !.functions =
     Append(@, Fn(src, clsName \o <<symbol.name>>, symbol.line,
                  IF clsName # <<>> /\ clsName[1] \in acc.classIds
                  THEN makeClassId(asRelativePath(src.fsPath), clsName[1])
                  ELSE ModuleIdOf(src)))]

RECURSIVE visit(_, _, _, _)
RECURSIVE VisitEach(_, _, _, _)
\* lines 61-90; acc holds nodes, functions and the class names seen (classIds)
visit(src, symbol, parentClassName, acc) ==
  IF symbol.kind = "Class"
  THEN VisitEach(src, symbol.children, <<symbol.name>>, AddClass(src, symbol, acc))
  ELSE VisitEach(src, symbol.children, parentClassName,
         IF symbol.kind \in {"Function", "Method"}
         THEN AddFn(src, symbol,
                    IF parentClassName # <<>> THEN parentClassName ELSE symbol.containerName,
                    acc)
         ELSE acc)

VisitEach(src, symbols, parentClassName, acc) ==
  IF symbols = <<>> THEN acc
  ELSE VisitEach(src, Tail(symbols), parentClassName,
                 visit(src, Head(symbols), parentClassName, acc))

\* text.slice(0, m.index).split(/\r?\n/).length - 1
LineOf(text, at) == Len(Newlines(SubSeq(text, 1, at - 1)))

\* lines 164-178
ClassNodesOf(src, cs) ==
  [k \in 1..Len(cs) |-> ClassNode(src, cs[k].cap[1], LineOf(src.text, cs[k].index))]

\* lines 181-187
FnListOf(src, fs) ==
  [k \in 1..Len(fs) |-> Fn(src, fs[k].cap, LineOf(src.text, fs[k].index), ModuleIdOf(src))]

\* lines 156-190
harvestPythonHeuristics(src) ==
  [classNodes |-> ClassNodesOf(src, MatchAll("pyClass", src.text, 1, <<>>)),
   fnList |-> FnListOf(src, MatchAll("pyDef", src.text, 1, <<>>))]

\* lines 102-113: the function nodes follow the others
Emit(symbols, src, nodes, functions, diagnostics) ==
  [symbols |-> symbols,
   functions |-> functions,
   nodes |-> nodes \o [k \in 1..Len(functions) |-> FuncNodeOf(src, functions[k])],
   diagnostics |-> diagnostics]

\* lines 48-50
NoSymbolsDiag(symbols) == IF symbols = <<>> THEN <<Diag("no symbols")>> ELSE <<>>

\* lines 94-99
WithHeuristics(symbols, src, v, h) ==
  Emit(symbols, src, v.nodes \o h.classNodes, h.fnList,
       NoSymbolsDiag(symbols) \o <<Diag("python heuristics")>>)

MappedFrom(symbols, src, v) ==
  IF v.functions = <<>> /\ IsPy(src.fsPath)
  THEN WithHeuristics(symbols, src, v, harvestPythonHeuristics(src))
  ELSE Emit(symbols, src, v.nodes, v.functions, NoSymbolsDiag(symbols))

\* parseWithLsp lines 48-113: from the symbols to the nodes, without awaiting
Mapped(src, symbols) ==
  MappedFrom(symbols, src,
             VisitEach(src, symbols, <<>>,
                       [nodes |-> <<ModuleNode(src)>>, functions |-> <<>>, classIds |-> {}]))

CallEdge(from, to) ==
  [from |-> from, to |-> to, type |-> "call", provenance |-> "hierarchy",
   confidence |-> 1, heuristic |-> <<FALSE>>]

\* functions.find(pred), given the positions that satisfy pred: the first
\* function among them, <<>> when there is none
FindAt(functions, at) == IF at = {} THEN <<>> ELSE <<functions[Least(at, 0)]>>

\* lines 218-223: the callee by its line, else by its simple name
ByLine(oc, functions) ==
  IF oc.line = <<>> THEN <<>>
  ELSE FindAt(functions, {k \in 1..Len(functions) : functions[k].start = oc.line[1]})
ByName(oc, functions) ==
  FindAt(functions,
         {k \in 1..Len(functions) : simpleName(functions[k].name) = simpleName(oc.name)})
OrByName(byLine, oc, functions) == IF byLine # <<>> THEN byLine ELSE ByName(oc, functions)
TargetOf(oc, functions) ==
  IF oc.name = <<>> THEN <<>> ELSE OrByName(ByLine(oc, functions), oc, functions)

\* lines 224-226
PushCall(edges, fn, target) ==
  IF target = <<>> THEN edges ELSE Append(edges, CallEdge(fn.id, target[1].id))

RECURSIVE CallEdgesOf(_, _, _, _)
\* lines 213-227
CallEdgesOf(fn, outgoing, functions, edges) ==
  IF outgoing = <<>> THEN edges
  ELSE CallEdgesOf(fn, Tail(outgoing), functions,
                   PushCall(edges, fn, TargetOf(Head(outgoing), functions)))

\* what provideCallHierarchyOutgoingCalls knows for the function at a line
OutgoingOf(src, line) ==
  LET c == {k \in 1..Len(src.calls) : src.calls[k].from = line}
  IN IF c = {} THEN <<>> ELSE src.calls[CHOOSE k \in c : TRUE].items

\* lines 119-123: the status and heuristicCalls, stamped on the module node
StampModule(nodes, status) ==
  [k \in 1..Len(nodes) |->
     IF nodes[k].kind = "module"
     THEN [nodes[k] EXCEPT !.lspStatus = <<status>>, !.heuristicCalls = <<FALSE>>]
     ELSE nodes[k]]

\* a mapper that reports an empty answer as the provider being unavailable
StatusNolsp(symbols) == IF symbols # <<>> THEN "ok" ELSE "nolsp"

\* line 118
StatusOf(symbols) == IF symbols # <<>> THEN "ok" ELSE "partial"

\* lines 118-124
Finished(lp) ==
  [nodes |-> StampModule(lp.nodes, StatusOf(lp.symbols)),
   edges |-> lp.edges, status |-> StatusOf(lp.symbols), diagnostics |-> lp.diagnostics]

\* index.ts 17-19
EnsureModule(src, nodes) ==
  IF \E k \in 1..Len(nodes) : nodes[k].kind = "module"
  THEN nodes ELSE <<moduleOnlyNode(src)>> \o nodes

\* the id of the node pushed last
LastNodeId(nodes) == nodes[Len(nodes)].id

\* index.ts 22: the id of the first module node
FirstModuleId(nodes) ==
  nodes[Least({k \in 1..Len(nodes) : nodes[k].kind = "module"}, 1)].id

\* index.ts 26-30
Stamp(nodes, status) ==
  [k \in 1..Len(nodes) |->
     IF nodes[k].kind = "module" /\ nodes[k].lspStatus = <<>>
     THEN [nodes[k] EXCEPT !.lspStatus = <<status>>] ELSE nodes[k]]

\* index.ts 32
Merge(res, nodes, sia) ==
  [nodes |-> nodes \o sia.ghosts, edges |-> res.edges \o sia.edges,
   status |-> res.status, diagnostics |-> res.diagnostics]

CompletedWith(src, mode, res, nodes) ==
  Merge(res, Stamp(nodes, res.status),
        staticImportArtifacts(FirstModuleId(nodes), src.text, src.fsPath, mode))

\* index.ts 16-32: the provider's result, the import edges and their ghosts
Completed(src, mode, res) == CompletedWith(src, mode, res, EnsureModule(src, res.nodes))

\* index.ts 42-44
FallbackWith(mod, sia, err) ==
  [nodes |-> <<[mod EXCEPT !.lspStatus = <<"nolsp">>, !.heuristicCalls = <<FALSE>>]>>
             \o sia.ghosts,
   edges |-> sia.edges,
   status |-> "nolsp", diagnostics |-> <<Diag(<<"LSP unavailable or slow", err>>)>>]

FallbackOf(mod, src, mode, err) ==
  FallbackWith(mod, staticImportArtifacts(mod.id, src.text, src.fsPath, mode), err)

\* index.ts 34-44: the fallback, the module and its imports only
Fallback(src, mode, err) == FallbackOf(moduleOnlyNode(src), src, mode, err)

NoParse == [nodes |-> <<>>, edges |-> <<>>, status |-> "none", diagnostics |-> <<>>]

IdleJob == [pc |-> "idle", src |-> <<>>, mode |-> "relative", result |-> NoParse]
IdleLsp == [pc |-> "idle", attempt |-> 0, symbols |-> <<>>, functions |-> <<>>,
            nodes |-> <<>>, edges |-> <<>>, diagnostics |-> <<>>, k |-> 0, err |-> "none"]

importVars == <<importDebounce, disk, fingerprints, chCache, tasks, stats, batch, cancelled, postCount,
                lastPost, parseCalls, queryCount, asked, statted, budget, lspWarnedThisSession,
                scans, imp, prior>>

(***************************************************************************)
(* parseFile (index.ts), ParseService.parseFile and parseWithLsp           *)
(* (lspParser.ts): one action per await of parseWithLsp, and the timer.    *)
(***************************************************************************)
\* index.ts 14: the value of `await timeout(lspP, ms)` is returned
Returned(j, res) == [j EXCEPT !.pc = "returned", !.result = Completed(j.src, j.mode, res)]

\* the same call leaving parseFile as an exception
Rethrown(j, err) == [j EXCEPT !.pc = "thrown"]

\* index.ts 33-45: the rejection of `await timeout(lspP, ms)` is caught
Caught(j, err) == [j EXCEPT !.pc = "returned", !.result = Fallback(j.src, j.mode, err)]

\* a promise that settles again
SettleAgain(j, settled) == settled

\* index.ts 121-124: the promise of timeout() settles once; later outcomes are dropped
Settle(j, settled) == IF j.pc = "waiting" THEN settled ELSE j

\* part_002 13-16: parseFile's result is stored in the Parse Index
IndexSet(j) ==
  IF j.pc = "returned" /\ j # job THEN [index EXCEPT ![j.src.file] = j.result] ELSE index

\* lspP settles: its then-callbacks clear the timer and settle parseFile's await
LspSettles(lp, settled) ==
  /\ lspP' = lp
  /\ job' = Settle(job, settled)
  /\ index' = IndexSet(job')
  /\ timer' = IF timer = "armed" THEN "cleared" ELSE timer

LspResolves(lp) == LspSettles([lp EXCEPT !.pc = "resolved"], Returned(job, Finished(lp)))

LspRejects(err) == LspSettles([lspP EXCEPT !.pc = "rejected", !.err = err], Caught(job, err))

LspGoesOn(lp) == lspP' = lp /\ UNCHANGED <<job, index, timer>>

\* ParseService.parseFile(uri, text) is called: parseWithLsp runs to its first
\* await (lines 27-43) and the deadline timer is armed
StartParse(src, mode) ==
  /\ job.pc = "idle"
  /\ job' = [IdleJob EXCEPT !.pc = "waiting", !.src = src, !.mode = mode]
  /\ lspP' = [IdleLsp EXCEPT !.pc = "open", !.nodes = <<ModuleNode(src)>>]
  /\ timer' = "armed"
  /\ UNCHANGED <<index, importVars>>

\* src/a.ts of SrcTsImport with its path spelled with backslashes
SrcTsBackslash ==
  [SrcTsImport EXCEPT !.fsPath = <<"\\", "ws", "\\", "src", "\\", "a", ".ts">>]

ReparseSources == {SrcTsImport, SrcTsBackslash, SrcPyImport}

\* what a settled parseFile call was given, was answered and returned
Settled(j, lp, tm) ==
  [src |-> j.src, mode |-> j.mode, symbols |-> lp.symbols,
   fromProvider |-> lp.pc = "resolved" /\ tm = "cleared", nodes |-> j.result.nodes]

\* ParseService.parseFile is called, for the first time or again once the
\* call before it and its parseWithLsp have settled
ParseNext(src, mode) ==
  /\ \/ job.pc = "idle"
     \/ /\ job.pc = "returned" /\ lspP.pc \in {"resolved", "rejected"}
        /\ Len(prior) + 1 < MaxParses
  /\ prior' = IF job.pc = "idle" THEN prior ELSE Append(prior, Settled(job, lspP, timer))
  /\ job' = [IdleJob EXCEPT !.pc = "waiting", !.src = src, !.mode = mode]
  /\ lspP' = [IdleLsp EXCEPT !.pc = "open", !.nodes = <<ModuleNode(src)>>]
  /\ timer' = "armed"
  /\ UNCHANGED <<importDebounce, index, disk, fingerprints, chCache, tasks, stats, batch, cancelled,
                 postCount, lastPost, parseCalls, queryCount, asked, statted, budget,
                 lspWarnedThisSession, scans, imp>>

\* line 43: openTextDocument answered; the first symbol query is issued
OpenDone ==
  /\ lspP.pc = "open"
  /\ \E ok \in BOOLEAN :
       IF ok THEN LspGoesOn([lspP EXCEPT !.pc = "symbols"]) ELSE LspRejects("open")
  /\ UNCHANGED importVars

\* getSymbolsWithWarmup's retries: 3 for Python, 2 otherwise
Retries(src) == IF src.languageId = "python" THEN 3 ELSE 2

\* addSameFileCallEdges from function k on: the next query, or the end of parseWithLsp
CallLoop(lp, k) ==
  IF k <= Len(lp.functions)
  THEN LspGoesOn([lp EXCEPT !.pc = "prepare", !.k = k])
  ELSE LspResolves(lp)

\* lines 46-113: the symbols are mapped to nodes and functions
Symbolized(lp, m) ==
  [lp EXCEPT !.symbols = m.symbols, !.functions = m.functions,
             !.nodes = m.nodes, !.diagnostics = m.diagnostics]

\* lines 132-133 and 139: symbols end the warm-up, and so does the last retry
SymbolsAnswered(answer, symbols) ==
  IF answer \in {"throw", "malformed"} THEN LspRejects(answer)
  ELSE IF symbols = <<>> /\ lspP.attempt < Retries(job.src)
  THEN LspGoesOn([lspP EXCEPT !.pc = "sleep"])
  ELSE CallLoop(Symbolized(lspP, Mapped(job.src, symbols)), 1)

\* lines 131-133 and 147-150: executeDocumentSymbolProvider answered
SymbolsDone ==
  /\ lspP.pc = "symbols"
  /\ \E answer \in SymbolAnswers : SymbolsAnswered(answer, asDocumentSymbols(job.src, answer))
  /\ UNCHANGED importVars

\* line 140: the back-off sleep is over; the nudge is sent
SleepDone ==
  /\ lspP.pc = "sleep"
  /\ LspGoesOn([lspP EXCEPT !.pc = "nudge"])
  /\ UNCHANGED importVars

\* lines 141-147: the nudge answered or threw; the symbol query is repeated
NudgeDone ==
  /\ lspP.pc = "nudge"
  /\ LspGoesOn([lspP EXCEPT !.pc = "symbols", !.attempt = @ + 1])
  /\ UNCHANGED importVars

HierarchyAnswers == {"throw", "nothing", "answer"}

\* lines 197-203: prepareCallHierarchy answered for function k
PrepareDone ==
  /\ lspP.pc = "prepare"
  /\ \E answer \in HierarchyAnswers :
       IF answer = "answer" THEN LspGoesOn([lspP EXCEPT !.pc = "outgoing"])
       ELSE CallLoop(lspP, lspP.k + 1)
  /\ UNCHANGED importVars

\* lines 205-211: what the loop of lines 213-227 goes through
OutgoingFor(answer, fn) == IF answer = "answer" THEN OutgoingOf(job.src, fn.start) ELSE <<>>

\* lines 213-227 for function fn
WithCalls(lp, fn, outgoing) ==
  [lp EXCEPT !.edges = CallEdgesOf(fn, outgoing, lp.functions, @)]

\* lines 205-227: provideCallHierarchyOutgoingCalls answered for function k
OutgoingDone ==
  /\ lspP.pc = "outgoing"
  /\ \E answer \in HierarchyAnswers :
       CallLoop(WithCalls(lspP, lspP.functions[lspP.k],
                          OutgoingFor(answer, lspP.functions[lspP.k])),
                lspP.k + 1)
  /\ UNCHANGED importVars

\* index.ts 122: the deadline expires before lspP settled
TimerFires ==
  /\ timer = "armed"
  /\ timer' = "fired"
  /\ job' = Settle(job, Caught(job, "timeout"))
  /\ index' = IndexSet(job')
  /\ UNCHANGED <<lspP, importVars>>

(***************************************************************************)
(* The import loop of staticImportArtifacts (index.ts 96-116) on a target  *)
(* as the regular expressions hand it over: the specifier between the      *)
(* quotes of an import written in a file of the workspace.                 *)
(***************************************************************************)
FromFiles ==
  { <<"/", "ws", "/", "src", "/", "x", ".ts">>,
    <<"/", "ws", "/", "src", "/", "y", ".ts">>,
    <<"/", "ws", "/", "x", ".ts">> }

DotSlashSpec == <<".", "/", "a", "/", "b", ".ts">>        \* ./a/b.ts
BareSpec == <<"a", "/", "b", ".ts">>                       \* a/b.ts
RawTargets == {DotSlashSpec, BareSpec, <<"..", "/", "a", "/", "b", ".ts">>,
               <<"/", "a", "/", "b", ".ts">>}

\* index.ts 92-117 with `raw` the one member of targets
TargetArtifacts(fromFsPath, raw, mode) ==
  IF mode = "off" THEN [edges |-> <<>>, ghosts |-> <<>>]
  ELSE ImportLoop(<<raw>>, ModuleIdOf([fsPath |-> fromFsPath]), fromFsPath, mode,
                  [edges |-> <<>>, ghosts |-> <<>>])

\* the import of `raw` written in file fromFsPath is turned into its edge and ghost
ResolveTarget(fromFsPath, raw, mode) ==
  /\ Len(scans) < MaxScans
  /\ scans' = Append(scans, [fromFsPath |-> fromFsPath, raw |-> raw, mode |-> mode,
                             out |-> TargetArtifacts(fromFsPath, raw, mode)])
  /\ UNCHANGED <<importDebounce, prior, index, job, lspP, timer, disk, fingerprints, chCache, tasks, stats, batch,
                 cancelled, postCount, lastPost, parseCalls, queryCount, asked, statted, budget,
                 lspWarnedThisSession, imp>>

(***************************************************************************)
(* importUri around the parseFile call of job (importService.ts 161-193)   *)
(* and resolveCrossFileCallsForFile on the result it stored, with the      *)
(* nodes and edges the mapper made.  The resolver's cache is empty: this   *)
(* is the file's first import.                                             *)
(***************************************************************************)
IdleImport == [pc |-> "idle", posts |-> <<>>, todo |-> <<>>, emit |-> <<>>, answered |-> {},
               cap |-> crossFileCallsMax, told |-> <<>>]

\* values of depviz.crossFileCallsMax
Caps == {0, 1, crossFileCallsMax}

\* what the resolver reads of a function node: id, label and range.line
FnView(n) == [id |-> n.id, label |-> n.label, line |-> n.line[1]]

\* crossFileCalls.ts 17: the function nodes of an index entry
FnNodesOf(res) ==
  LET fs == SelectSeq(res.nodes, LAMBDA n : n.kind = "func")
  IN [k \in 1..Len(fs) |-> FnView(fs[k])]

\* the Parse Index as the resolver sees it: the entry of the job's file
IndexOf(src) == [f \in {src.file} |-> [fns |-> FnNodesOf(index[src.file])]]

\* what provideCallHierarchyOutgoingCalls answers for the function at a line:
\* the callee's uri, name and selection line
ItemsOf(src, line) ==
  LET oc == OutgoingOf(src, line)
  IN [k \in 1..Len(oc) |-> [uri |-> oc[k].file, name |-> oc[k].name, line |-> oc[k].line[1]]]

\* lines 161-163: the delta of the file is posted; cap is the value
\* depviz.crossFileCallsMax has during this import
ImportPosts(cap) ==
  /\ job.pc = "returned"
  /\ imp.pc = "idle"
  /\ imp' = [imp EXCEPT !.pc = "post", !.cap = cap,
                        !.posts = <<[nodes |-> job.result.nodes, edges |-> job.result.edges]>>]
  /\ UNCHANGED <<importDebounce, prior, index, job, lspP, timer, disk, fingerprints, chCache, tasks, stats, batch,
                 cancelled, postCount, lastPost, parseCalls, queryCount, asked, statted, budget,
                 lspWarnedThisSession, scans>>

\* crossFileCalls.ts 66-74 once every function was asked about: the edges are posted
ImportResolved(im) ==
  IF CapPayloadAt(im.emit, im.cap) # <<>>
  THEN [im EXCEPT !.pc = "xpost", !.told = CapNotice(im.emit, im.cap),
                  !.posts = Append(@, [nodes |-> <<>>,
                                       edges |-> CapPayloadAt(im.emit, im.cap)])]
  ELSE [im EXCEPT !.pc = "done", !.told = CapNotice(im.emit, im.cap)]

\* crossFileCalls.ts 25-35: the next function's query is awaited, if there is one
ImportAsks(im) == IF im.todo # <<>> THEN [im EXCEPT !.pc = "xquery"] ELSE ImportResolved(im)

\* lines 164-188: the webview answered the delta; the resolver starts
ImportPostDone ==
  /\ imp.pc = "post"
  /\ \E ok \in BOOLEAN :
       imp' = IF ~ok THEN [imp EXCEPT !.pc = "failed"]
              ELSE IF enableXfile /\ index[job.src.file].status # "nolsp"
              THEN ImportAsks([imp EXCEPT !.todo = FnNodesOf(index[job.src.file])])
              ELSE [imp EXCEPT !.pc = "done"]
  /\ UNCHANGED <<importDebounce, prior, index, job, lspP, timer, disk, fingerprints, chCache, tasks, stats, batch,
                 cancelled, postCount, lastPost, parseCalls, queryCount, asked, statted, budget,
                 lspWarnedThisSession, scans>>

\* crossFileCalls.ts 33-64 for the function at the head of todo
ImportAnswered(im, fn, answer) ==
  [im EXCEPT !.todo = Tail(@),
             !.answered = IF answer = "answer" THEN @ \cup {fn.id} ELSE @,
             !.emit = IF answer = "answer"
                      THEN AddEdges(fn, ItemsOf(job.src, fn.line), @,
                                    buildWorkspaceFuncIndex(IndexOf(job.src)))
                      ELSE @]

\* crossFileCalls.ts 33-44: the provider answered the function's queries
ImportQueryDone ==
  /\ imp.pc = "xquery"
  /\ \E answer \in HierarchyAnswers :
       imp' = ImportAsks(ImportAnswered(imp, Head(imp.todo), answer))
  /\ UNCHANGED <<importDebounce, prior, index, job, lspP, timer, disk, fingerprints, chCache, tasks, stats, batch,
                 cancelled, postCount, lastPost, parseCalls, queryCount, asked, statted, budget,
                 lspWarnedThisSession, scans>>

\* crossFileCalls.ts 73: the webview answered the edges; importUri returns
ImportXPostDone ==
  /\ imp.pc = "xpost"
  /\ imp' = [imp EXCEPT !.pc = "done"]
  /\ UNCHANGED <<importDebounce, prior, index, job, lspP, timer, disk, fingerprints, chCache, tasks, stats, batch,
                 cancelled, postCount, lastPost, parseCalls, queryCount, asked, statted, budget,
                 lspWarnedThisSession, scans>>

Init ==
  /\ disk = [f \in Stored |-> 1]
  /\ fingerprints = [f \in Stored |-> NoFingerprint]
  /\ index = [f \in Stored |-> NoResult]
  /\ chCache = [k \in Stored \X Versions |-> NoEntry]
  /\ tasks = [t \in TaskIds |-> IdleTask]
  /\ stats = NoStats
  /\ batch = IdleBatch
  /\ cancelled = FALSE
  /\ postCount = 0
  /\ lastPost = NoPost
  /\ parseCalls = 0
  /\ queryCount = 0
  /\ asked = [k \in Stored \X Versions |-> 0]
  /\ statted = {}
  /\ budget = [edits |-> MaxEdits, evicts |-> MaxEvicts, hooks |-> MaxHooks,
               batches |-> MaxBatches, clears |-> MaxClears]
  /\ job = IdleJob
  /\ lspP = IdleLsp
  /\ timer = "off"
  /\ lspWarnedThisSession = FALSE
  /\ scans = <<>>
  /\ imp = IdleImport
  /\ prior = <<>>
  /\ importDebounce = IdleDebounce

TaskStep(t) ==
  \/ StatDone(t)
  \/ ReadDone(t)
  \/ ParseDone(t)
  \/ PostDone(t)
  \/ QueryDone(t)
  \/ XPostDone(t)

LiveRoots == { <<File("a")>>, <<File("b")>> }

\* the pipeline under hooks, evictions, edits and a batch of one plain file
Next ==
  \/ \E t \in TaskIds : TaskStep(t)
  \/ \E p \in RegFiles : HookImportUri(p)
  \/ \E p \in RegFiles, text \in Versions : HookImportText(p, text)
  \/ \E p \in RegFiles : EvictFingerprint(p)
  \/ \E p \in RegFiles : EditDisk(p)
  \/ \E roots \in LiveRoots : StartBatch(roots, MaxCap)
  \/ SliceDone
  \/ BatchEnd

Spec == Init /\ [][Next]_vars

\* importMany over every kind of root, with cancellation
NextBatch ==
  \/ \E t \in TaskIds : TaskStep(t)
  \/ \E roots \in RootChoices, hardCap \in 1..MaxCap : StartBatch(roots, hardCap)
  \/ SliceDone
  \/ BatchEnd
  \/ Cancel

SpecBatch == Init /\ [][NextBatch]_vars

\* what the event loop does once a promise has settled: an awaiting
\* importUri goes on, importMany goes on after its slice and after its last post
Progress ==
  \/ \E t \in TaskIds : TaskStep(t)
  \/ SliceDone
  \/ BatchEnd

\* SpecBatch where every awaited call (stat, readFile, parseFile with its
\* deadline, postMessage, the call-hierarchy queries) settles in the end
FairBatch == SpecBatch /\ WF_vars(Progress)

\* the awaited calls that settle without the provider: stat, readDirectory
\* and readFile of the storage, parseFile (index.ts 10-14 races the provider
\* against its deadline timer) and postMessage of the delta sink
SettlesAlone(t) ==
  \/ StatDone(t)
  \/ ReadDone(t)
  \/ ParseDone(t)
  \/ PostDone(t)
  \/ XPostDone(t)

ProgressAlone ==
  \/ \E t \in TaskIds : SettlesAlone(t)
  \/ SliceDone
  \/ BatchEnd

\* SpecBatch where the storage, the deadline and the sink always settle, and
\* the provider may leave a call-hierarchy query of the resolver unanswered
FairStorage == SpecBatch /\ WF_vars(ProgressAlone)

\* a batch of a and b, then a's body is rewritten, saved and imported again
NextStale ==
  \/ \E t \in TaskIds : TaskStep(t)
  \/ StartBatch(<<File("a"), File("b")>>, MaxCap)
  \/ SliceDone
  \/ BatchEnd
  \/ \E v \in 1..MaxContent : EditDiskTo("a", v)
  \/ HookImportUri("a")
  \/ EvictFingerprint("a")

SpecStale == Init /\ [][NextStale]_vars

\* a and b imported by a batch, a by the save hook and evicted, the canvas cleared
NextAsk ==
  \/ \E t \in TaskIds : TaskStep(t)
  \/ StartBatch(<<File("a"), File("b")>>, MaxCap)
  \/ SliceDone
  \/ BatchEnd
  \/ HookImportUri("a")
  \/ EvictFingerprint("a")
  \/ ClearCanvas

SpecAsk == Init /\ [][NextAsk]_vars

\* one parseFile call on any of the files, in any import mode, under any
\* behaviour of the language server and of the clock
NextParse ==
  \/ \E src \in Sources, mode \in ImportModes : StartParse(src, mode)
  \/ OpenDone
  \/ SymbolsDone
  \/ SleepDone
  \/ NudgeDone
  \/ PrepareDone
  \/ OutgoingDone
  \/ TimerFires

SpecParse == Init /\ [][NextParse]_vars

\* one importUri call from its parseFile call on, with the mapper's result
NextImport ==
  \/ NextParse
  \/ ImportPosts(crossFileCallsMax)
  \/ ImportPostDone
  \/ ImportQueryDone
  \/ ImportXPostDone

SpecImport == Init /\ [][NextImport]_vars

\* a batch over one directory root, walked by importUri or expanded by findFiles
SkipRoots == { <<File("d")>>, <<Glob("d")>>, <<File("w")>>, <<Glob("w")>> }

NextSkip ==
  \/ \E t \in TaskIds : TaskStep(t)
  \/ \E roots \in SkipRoots : StartBatch(roots, MaxCap)
  \/ SliceDone
  \/ BatchEnd

SpecSkip == Init /\ [][NextSkip]_vars

\* one parseFile call on a file whose functions call each other or call into
\* another file
NextCalls ==
  \/ \E src \in CallSources, mode \in ImportModes : StartParse(src, mode)
  \/ OpenDone
  \/ SymbolsDone
  \/ SleepDone
  \/ NudgeDone
  \/ PrepareDone
  \/ OutgoingDone
  \/ TimerFires

SpecCalls == Init /\ [][NextCalls]_vars

\* one parseFile call on files whose symbols come as a tree, as a flat list in
\* either order, or without any function
NextShapes ==
  \/ \E src \in ShapeSources, mode \in ImportModes : StartParse(src, mode)
  \/ OpenDone
  \/ SymbolsDone
  \/ SleepDone
  \/ NudgeDone
  \/ PrepareDone
  \/ OutgoingDone
  \/ TimerFires

SpecShapes == Init /\ [][NextShapes]_vars

\* one import of such a file under any value of depviz.crossFileCallsMax
NextCap ==
  \/ NextCalls
  \/ \E cap \in Caps : ImportPosts(cap)
  \/ ImportPostDone
  \/ ImportQueryDone
  \/ ImportXPostDone

SpecCap == Init /\ [][NextCap]_vars

\* parseFile called again and again on a file, in either spelling of its path
NextReparse ==
  \/ \E src \in ReparseSources, mode \in ImportModes : ParseNext(src, mode)
  \/ OpenDone
  \/ SymbolsDone
  \/ SleepDone
  \/ NudgeDone
  \/ PrepareDone
  \/ OutgoingDone
  \/ TimerFires

SpecReparse == Init /\ [][NextReparse]_vars

\* documents are saved while a panel is open; the save hook imports them
NextSave ==
  \/ \E p \in RegFiles : SaveDoc(p)
  \/ DebounceFires
  \/ \E t \in TaskIds : TaskStep(t)

SpecSave == Init /\ [][NextSave]_vars

\* the debounce timer fires once its 250 ms have passed, and the calls the
\* import awaits settle
FairSave == SpecSave /\ WF_vars(DebounceFires \/ \E t \in TaskIds : TaskStep(t))

\* the resolver picks among the same-named functions of a target file
NextPick == \E cands \in PickLists, tLine \in PickLines : PickTarget(cands, tLine)

SpecPick == Init /\ [][NextPick]_vars

\* import specifiers of files of the workspace put through the import loop
NextTargets ==
  \E fromFsPath \in FromFiles, raw \in RawTargets, mode \in ImportModes :
    ResolveTarget(fromFsPath, raw, mode)

SpecTargets == Init /\ [][NextTargets]_vars

(***************************************************************************)
(* Properties of the import pipeline.                                      *)
(***************************************************************************)
\* what a call that returns at the fingerprint comparison leaves alone
NoOpFrame ==
  /\ index' = index
  /\ fingerprints' = fingerprints
  /\ postCount' = postCount
  /\ lastPost' = lastPost
  /\ parseCalls' = parseCalls
  /\ queryCount' = queryCount
  /\ stats' = stats

\* importUri's readFile resolves with content whose hash is the stored fingerprint
UriSameContent(t) ==
  /\ tasks[t].pc = "read"
  /\ tasks'[t] # tasks[t]
  /\ tasks'[t].out # "failed"
  /\ fingerprints[normalizePath(tasks[t].uri)] = hashString(disk[tasks[t].uri])

\* importText is called with text whose hash is the stored fingerprint
TextSameContent ==
  /\ budget'.hooks # budget.hooks
  /\ tasks'[0].kind = "text"
  /\ ~TooBig(tasks'[0].uri) /\ ~SkipExt(tasks'[0].uri)
  /\ fingerprints[normalizePath(tasks'[0].uri)] = hashString(tasks'[0].text)

\* C1: an importUri or importText call that is supplied content whose hash
\* equals the path's stored fingerprint returns at once and changes nothing:
\* the Parse Index and the Fingerprint Cache stay as they are, no delta is
\* posted, parseFile is not called, no provider query is issued and no
\* summary counter moves.
C1_UnchangedIsNoOp ==
  [][ /\ \A t \in TaskIds :
           UriSameContent(t) => NoOpFrame /\ tasks'[t].pc \in {"done", "stat"}
      /\ TextSameContent => NoOpFrame /\ tasks'[0].pc = "done" ]_vars

\* a batch call of importUri found the content unchanged after an earlier
\* import had stored its fingerprint and index entry
C1_Witness ==
  \E t \in TaskIds \ {0} :
    /\ tasks[t].pc = "done" /\ tasks[t].out = "unchanged"
    /\ \E f \in RegFiles : fingerprints[f] = hashString(disk[f]) /\ index[f] # NoResult

RECURSIVE Descendants(_)
\* everything importUri's recursion visits below a directory
Descendants(u) ==
  LET ch == {Children(u)[k] : k \in 1..Len(Children(u))}
  IN ch \cup UNION {Descendants(c) : c \in ch}

\* C2: when one file of a batch fails, every other file of the batch is still
\* processed, the siblings of the failing file inside a walked directory
\* included: once the batch has shown its summary without being cancelled,
\* a walked root directory in which some regular file was handed to stat has
\* had all of its files handed to stat.
C2_FailureContained ==
  (batch.pc = "done" /\ ~cancelled) =>
    \A k \in 1..Len(batch.files) :
      LET all == Descendants(batch.files[k])
      IN (\E f \in all \ Dirs : f \in statted) => all \subseteq statted

RECURSIVE MatchCount(_)
\* the number of files a list of roots matches
MatchCount(roots) ==
  IF roots = <<>> THEN 0
  ELSE (IF Head(roots).u \in Dirs THEN Cardinality(Under(Head(roots).u)) ELSE 1)
       + MatchCount(Tail(roots))

\* C3: every edge posted by resolveCrossFileCallsForFile points at a function
\* node that is in the Parse Index at the moment of the post.
C3_TargetsIndexed ==
  [][ (postCount' # postCount /\ lastPost'.kind = "xfile") =>
        \A k \in 1..Len(lastPost'.edges) :
          lastPost'.edges[k].to \in FuncIdsOf(index') ]_vars

\* C4: when the roots match N files and N > maxFiles = M, the batch calls
\* parseFile for at most M files and the user is told N and M.
C4_CapEnforced ==
  (batch.pc = "done" /\ MatchCount(batch.roots) > batch.maxFiles) =>
    /\ batch.told = <<MatchCount(batch.roots), batch.maxFiles>>
    /\ parseCalls <= batch.maxFiles

(***************************************************************************)
(* Properties of parseFile.                                                *)
(***************************************************************************)
\* the import edges and ghosts the lexical scan gives for the file of call j
ImportsOf(j) == staticImportArtifacts(ModuleIdOf(j.src), j.src.text, j.src.fsPath, j.mode)

OneWarning(res) == Len(res.diagnostics) = 1 /\ res.diagnostics[1].severity = "warn"

\* C5: parseFile, given the file's text, returns a ParseResult and never
\* throws, whatever the provider does: the call is never left by an
\* exception; once the provider's extraction has resolved or rejected, or
\* the deadline has passed without an answer, the call has returned a result
\* with one of the three statuses; and a provider failure shows as status
\* nolsp with one warn diagnostic.
C5_NeverThrows ==
  /\ job.pc \in {"idle", "waiting", "returned"}
  /\ (lspP.pc \in {"rejected", "resolved"} \/ timer = "fired") =>
       /\ job.pc = "returned"
       /\ job.result.status \in {"ok", "partial", "nolsp"}
       /\ index[job.src.file] = job.result
  /\ lspP.pc = "rejected" => job.result.status = "nolsp" /\ OneWarning(job.result)

\* the symbol query answered with a malformed value before the deadline and
\* parseFile returned
C5_Witness ==
  /\ lspP.pc = "rejected" /\ lspP.err = "malformed" /\ timer = "cleared"
  /\ job.pc = "returned" /\ job.result.status = "nolsp"

\* the fallback result of index.ts for a file: the module node and the imports
IsFallback(res, src, sia) ==
  /\ res.status = "nolsp"
  /\ OneWarning(res)
  /\ res.nodes # <<>>
  /\ res.nodes[1].kind = "module" /\ res.nodes[1].id = ModuleIdOf(src)
  /\ res.nodes[1].heuristicCalls = <<FALSE>>
  /\ Tail(res.nodes) = sia.ghosts
  /\ res.edges = sia.edges

\* C6: when the deadline expires before the provider-based extraction has
\* completed, parseFile completes at that step with the fallback result
\* (status nolsp, one warn diagnostic, the module node with heuristicCalls
\* false, the lexical import edges and their ghosts); and whatever the
\* provider answers after the deadline changes neither the returned result
\* nor the Parse Index.
C6_DeadlineFallback ==
  [][ /\ (timer = "armed" /\ timer' = "fired") =>
           /\ job'.pc = "returned"
           /\ IsFallback(job'.result, job.src, ImportsOf(job))
           /\ index'[job.src.file] = job'.result
      /\ timer = "fired" => job' = job /\ index' = index ]_vars

\* the deadline expired first, and then the provider completed with symbols
C6_Witness ==
  /\ timer = "fired" /\ lspP.pc = "resolved" /\ lspP.symbols # <<>>
  /\ job.pc = "returned" /\ job.result.status = "nolsp"

\* C7: if the provider has returned at least one symbol for the file, the
\* result parseFile returns does not have status nolsp, whatever the
\* call-hierarchy queries that follow do (answer, fail, or answer slowly).
C7_SymbolsNotNolsp ==
  [][ (lspP.symbols # <<>> /\ job.pc = "waiting" /\ job'.pc = "returned") =>
        job'.result.status # "nolsp" ]_vars

OnlyModuleAndGhosts(res, src) ==
  /\ res.nodes # <<>>
  /\ res.nodes[1].id = ModuleIdOf(src)
  /\ \A k \in 2..Len(res.nodes) :
       /\ res.nodes[k].kind = "module" /\ res.nodes[k].collapsed = <<TRUE>>
       /\ \E e \in 1..Len(res.edges) : res.edges[e].to = res.nodes[k].id
  /\ \A k \in 1..Len(res.nodes) : res.nodes[k].kind = "module"

NoCallEdges(res) == \A e \in 1..Len(res.edges) : res.edges[e].type # "call"

FuncNodes(res) == SelectSeq(res.nodes, LAMBDA n : n.kind = "func")

\* parseFile returned what the provider-based extraction produced
ReturnedFromProvider == job.pc = "returned" /\ timer = "cleared"

C9_RelativeImportEdge ==
  (job.pc = "returned" /\ job.src = SrcTsImport /\ job.mode = "relative") =>
    \E e \in 1..Len(job.result.edges) :
      /\ job.result.edges[e].type = "import"
      /\ job.result.edges[e].from = ModuleIdOf(job.src)
      /\ \E k \in 1..Len(job.result.nodes) :
           /\ job.result.nodes[k].id = job.result.edges[e].to
           /\ job.result.nodes[k].kind = "module"
           /\ job.result.nodes[k].collapsed = <<TRUE>>
           /\ job.result.nodes[k].source = <<>>

\* C10: the target id of an import edge that refers to workspace file X is
\* the module id X gets when X itself is parsed (here for the Python files,
\* whose only import refers to the file named in "refers").
C10_ImportTargetIsModuleId ==
  (job.pc = "returned" /\ job.src.languageId = "python") =>
    \A e \in 1..Len(job.result.edges) :
      job.result.edges[e].type = "import" =>
        job.result.edges[e].to = ModuleIdOf([fsPath |-> job.src.refers])

(***************************************************************************)
(* Properties of the import targets.                                       *)
(***************************************************************************)
SameDir(p, q) == DirOf(normalizePosixPath(p)) = DirOf(normalizePosixPath(q))

TargetIds(scan) == {scan.out.edges[k].to : k \in 1..Len(scan.out.edges)}

UriNoFingerprint(t) ==
  /\ tasks[t].pc = "read"
  /\ tasks'[t] # tasks[t]
  /\ tasks'[t].out # "failed"
  /\ fingerprints[normalizePath(tasks[t].uri)] = NoFingerprint

TextNoFingerprint ==
  /\ budget'.hooks # budget.hooks
  /\ tasks'[0].kind = "text"
  /\ ~TooBig(tasks'[0].uri) /\ ~SkipExt(tasks'[0].uri)
  /\ fingerprints[normalizePath(tasks'[0].uri)] = NoFingerprint

\* C12: when evictFingerprint(p) returns, the Fingerprint Cache and the
\* Parse Index have no entry for p; an import of a path without fingerprint
\* calls parseFile whatever the content is, and the import that called
\* parseFile posts the file's delta when parseFile returns.
C12_EvictionForcesReparse ==
  [][ /\ \A p \in RegFiles :
           (budget'.evicts # budget.evicts /\ (fingerprints'[p] # fingerprints[p]
                                               \/ index'[p] # index[p]))
             => fingerprints'[normalizePath(p)] = NoFingerprint /\ index'[p] = NoResult
      /\ budget'.evicts # budget.evicts =>
           \E p \in RegFiles : fingerprints'[normalizePath(p)] = NoFingerprint
                                /\ index'[p] = NoResult
      /\ \A t \in TaskIds :
           /\ UriNoFingerprint(t) =>
                tasks'[t].pc = "parse" /\ parseCalls' = parseCalls + 1
           /\ (tasks[t].pc = "parse" /\ tasks'[t] # tasks[t]) =>
                /\ postCount' = postCount + 1
                /\ lastPost'.kind = "file" /\ lastPost'.uri = tasks[t].uri
      /\ TextNoFingerprint => tasks'[0].pc = "parse" /\ parseCalls' = parseCalls + 1 ]_vars

\* the save hook's import of a has parsed a and is posting it; a was evicted;
\* the batch's import of a, reading the same content (no edit), has parsed it
\* again and is posting it
C12_Witness ==
  /\ budget.evicts = 0 /\ budget.edits = MaxEdits
  /\ tasks[0].kind = "uri" /\ tasks[0].uri = "a" /\ tasks[0].pc = "post"
  /\ tasks[1].uri = "a" /\ tasks[1].pc = "post"
  /\ parseCalls = 2

\* the resolver, run for file u now, has a function to ask the provider about
FirstQueryDue(u) ==
  /\ index[u].status # "nolsp"
  /\ index[u].fns # <<>>
  /\ ~chCache[<<u, index[u].fns[1].line>>].hit

\* C13: once the batch's cancellation signal is set, no importUri invocation
\* of that batch starts (a later importMany has a signal of its own): none
\* reaches its stat, no file of a later slice and no child of a walked
\* directory, while an invocation already past its check goes on:
\* its content, once read, is parsed unless unchanged, its parse result is
\* posted, and when the post is accepted its cross-file resolution issues
\* its provider query.
C13_CancelStopsNewWork ==
  [][ (cancelled /\ batch'.id = batch.id) =>
        /\ statted' = statted
        /\ \A t \in TaskIds \ {0} :
             /\ tasks'[t].pc = "stat" => tasks'[t] = tasks[t]
             /\ (tasks[t].pc = "read" /\ tasks'[t].pc = "done") =>
                  tasks'[t].out \in {"failed", "unchanged"}
             /\ (tasks[t].pc = "parse" /\ tasks'[t] # tasks[t]) =>
                  tasks'[t].pc = "post" /\ postCount' = postCount + 1
             /\ (tasks[t].pc = "post" /\ tasks'[t] # tasks[t] /\ tasks'[t].out # "failed"
                   /\ FirstQueryDue(tasks[t].uri)) =>
                  tasks'[t].pc = "resolve" /\ queryCount' = queryCount + 1 ]_vars

\* the batch of nine files was cancelled during its first slice: the eight
\* invocations of that slice ran to their end, the ninth file was never
\* handed to stat, and the batch ended
C13_Witness ==
  /\ cancelled /\ batch.pc = "done"
  /\ Len(batch.files) = batchSize + 1
  /\ stats.skippedByExt = batchSize
  /\ "b" \notin statted

\* importMany is past findFilesFromRoots and has not shown its summary
BatchRunning == batch.pc \in {"slice", "end"}

\* the empty delta that marks the end of batch id
IsEndOf(post, id) ==
  /\ post.kind # "none"
  /\ post.endOfBatch /\ post.batchId = id /\ id # NoBatchId
  /\ post.nodes = <<>> /\ post.edges = <<>>

C15_DeltasCarryBatchId ==
  [][ postCount' # postCount =>
        /\ batch'.id # NoBatchId
        /\ lastPost'.batchId = batch'.id
        /\ ~lastPost'.endOfBatch => batch.pc = "slice" /\ batch'.pc = "slice" ]_vars

\* parseFile returns to import t a result with status nolsp
DetectsNolsp(t) ==
  tasks[t].pc = "parse" /\ tasks'[t].pc = "post" /\ tasks'[t].res.status = "nolsp"

\* C16: in one session the provider-unavailable advisory is shown exactly
\* once, at the first import whose parse result has status nolsp: that
\* import turns ImportService.lspWarnedThisSession true, which shows the
\* advisory; nothing else turns it true and nothing turns it false again.
C16_AdvisoryOnce ==
  [][ /\ (\E t \in TaskIds : DetectsNolsp(t)) => lspWarnedThisSession'
      /\ lspWarnedThisSession => lspWarnedThisSession'
      /\ (lspWarnedThisSession' /\ ~lspWarnedThisSession) =>
           \E t \in TaskIds : DetectsNolsp(t) ]_vars

\* the sum of the six summary counters
Total(st) ==
  st.importedOk + st.importedPartial + st.importedNoLsp + st.failed
    + st.skippedBySize + st.skippedByExt

\* C17: within a batch each attempted file moves exactly one of the six
\* counters, by one: no step of an importUri invocation adds more than one
\* to the counters (a failing file is counted once under failed, also
\* inside nested directories), the step that ends the file's post adds
\* exactly one, and nothing is added for a file after its status was tallied.
C17_OneCounterPerFile ==
  [][ batch'.id = batch.id =>
        /\ Total(stats') \in {Total(stats), Total(stats) + 1}
        /\ \A t \in TaskIds \ {0} :
             /\ (tasks[t].pc = "post" /\ tasks'[t] # tasks[t]) =>
                  Total(stats') = Total(stats) + 1
             /\ (tasks[t].pc \in {"resolve", "xpost"} /\ tasks'[t] # tasks[t]) =>
                  stats' = stats ]_vars

\* the webview answered false to the delta of import t
SinkRejects(t) ==
  tasks[t].pc = "post" /\ tasks'[t].pc = "done" /\ tasks'[t].out = "failed"

\* C18: when the delta sink rejects a file's delta, the import of that file
\* has no observable effect: cross-file resolution is not run, no status
\* counter moves, and the Fingerprint Cache and the Parse Index do not hold
\* the fingerprint and the parse result of the content that was not
\* delivered, so that a later import of the same content parses and posts
\* it again.
C18_RejectedLeavesNoTrace ==
  [][ \A t \in TaskIds :
        SinkRejects(t) =>
          /\ queryCount' = queryCount
          /\ stats'.importedOk = stats.importedOk
          /\ stats'.importedPartial = stats.importedPartial
          /\ stats'.importedNoLsp = stats.importedNoLsp
          /\ fingerprints'[normalizePath(tasks[t].uri)] # hashString(tasks[t].text)
          /\ index'[tasks[t].uri] # tasks[t].res ]_vars

(***************************************************************************)
(* Properties of one import with the mapper's result.                      *)
(***************************************************************************)
\* the ids of Foo.bar and baz of src/a.ts
BarId == makeFuncId(asRelativePath(SrcTsImport.fsPath), <<"Foo", "bar">>, 2)
BazId == makeFuncId(asRelativePath(SrcTsImport.fsPath), <<"baz">>, 3)

RECURSIVE CallEdgesIn(_, _, _)
\* the call edges from -> to in a list of deltas, delta after delta
CallEdgesIn(posts, from, to) ==
  IF posts = <<>> THEN <<>>
  ELSE SelectSeq(Head(posts).edges,
                 LAMBDA e : e.type = "call" /\ e.from = from /\ e.to = to)
       \o CallEdgesIn(Tail(posts), from, to)

\* C19: for src/a.ts, whose provider symbols are class Foo with method bar
\* and function baz and whose call hierarchy reports that bar calls baz, an
\* import that ran to its end with the provider answering emits exactly
\* one call edge Foo.bar -> baz over all its deltas (the file's delta and the
\* cross-file delta), with provenance hierarchy and confidence 1.
C19_OneCallEdge ==
  ( /\ imp.pc = "done" /\ job.src = SrcTsImport
    /\ job.result.status = "ok" /\ BarId \in imp.answered )
  => LET es == CallEdgesIn(imp.posts, BarId, BazId)
     IN /\ Len(es) = 1
        /\ es[1].provenance = "hierarchy" /\ es[1].confidence = 1

\* the workspace-relative label of a file with every backslash written as a slash
PosixLabel(src) ==
  [k \in 1..Len(asRelativePath(src.fsPath)) |->
     IF asRelativePath(src.fsPath)[k] = "\\" THEN "/" ELSE asRelativePath(src.fsPath)[k]]

\* the nodes of a result that stand for the file and its symbols (a ghost of an
\* import has no fsPath)
OwnNodes(nodes) == {nodes[k] : k \in {i \in 1..Len(nodes) : nodes[i].fsPath # <<>>}}
OwnIds(nodes) == {n.id : n \in OwnNodes(nodes)}

\* the id the formats give a node of the file with this label
IdByFormat(n, label) ==
  IF n.kind = "module" THEN <<"mod", label>>
  ELSE IF n.kind = "class" THEN <<"cls", label, n.label[1]>>
  ELSE <<"fn", label, n.label, n.line[1]>>

\* two parseFile calls on the same file, in whichever spelling, that the
\* provider answered with the same symbols
SameParse(a, b) ==
  /\ PosixLabel(a.src) = PosixLabel(b.src) /\ a.src.text = b.src.text
  /\ a.fromProvider /\ b.fromProvider /\ a.symbols = b.symbols

\* C20: when a parseFile call has settled, every node of the file has the id
\* its format gives it (mod:label, cls:label#class, fn:label#name@line, with the
\* label spelled with slashes), and an earlier call on the same file that the
\* provider answered with the same symbols returned the same node ids, whatever
\* the spelling of the path, the import mode and the call-hierarchy answers
C20_SameNodeIds ==
  (job.pc = "returned" /\ lspP.pc \in {"resolved", "rejected"}) =>
     /\ \A n \in OwnNodes(job.result.nodes) : n.id = IdByFormat(n, PosixLabel(job.src))
     /\ \A p \in 1..Len(prior) :
          SameParse(prior[p], Settled(job, lspP, timer)) =>
             OwnIds(prior[p].nodes) = OwnIds(job.result.nodes)

\* src/a.ts was parsed under its slash spelling and then, in another import
\* mode, under its backslash spelling, the provider answering both times with
\* the class Foo, its method and the function baz
C20_Witness ==
  /\ Len(prior) = 1 /\ prior[1].src = SrcTsImport /\ job.src = SrcTsBackslash
  /\ job.pc = "returned" /\ lspP.pc = "resolved"
  /\ SameParse(prior[1], Settled(job, lspP, timer))
  /\ prior[1].mode # job.mode
  /\ {n.kind : n \in OwnNodes(job.result.nodes)} = {"module", "class", "func"}
  /\ <<"fn", <<"src", "/", "a", ".ts">>, <<"Foo", "bar">>, 2>> \in OwnIds(job.result.nodes)

\* an importUri / importText invocation between its fingerprint check and the
\* storing of its parse result
Parsing(t, u) == tasks[t].pc = "parse" /\ tasks[t].uri = u

\* C21: at most one parse of a path is in flight: no two invocations of the
\* same path are both between their fingerprint check and the storing of
\* their result
C21_OneParseInFlight ==
  \A u \in RegFiles : \A s, t \in TaskIds : (Parsing(s, u) /\ Parsing(t, u)) => s = t

\* no importUri / importText invocation is between its start and its return
NoImportInFlight == \A t \in TaskIds : tasks[t].pc \in {"idle", "done"}

\* C22: whenever no import is in flight, every path with a Fingerprint Cache
\* entry has a Parse Index entry, and that entry is the result of parsing the
\* content the fingerprint was taken of
C22_IndexMatchesFingerprint ==
  NoImportInFlight =>
     \A f \in RegFiles :
        fingerprints[normalizePath(f)] # NoFingerprint =>
           /\ index[f] # NoResult
           /\ hashString(index[f].text) = fingerprints[normalizePath(f)]

\* C23: a running importMany always reaches its summary, its last delta
\* the endOfBatch delta of the batch, when the storage, the deadline of
\* parseFile and the sink settle, whatever the provider leaves unanswered
C23_BatchTerminates ==
  BatchRunning ~> (batch.pc = "done" /\ IsEndOf(lastPost, batch.id))

\* the provider reports a call from function node f to a target that lies in
\* the parsed file itself, at function node g
ReportedInFile(src, f, g) ==
  \E k \in 1..Len(OutgoingOf(src, f.line[1])) :
     /\ OutgoingOf(src, f.line[1])[k].file = src.file
     /\ OutgoingOf(src, f.line[1])[k].line = g.line

\* C24: every call edge of a ParseResult joins two function nodes f and g of
\* the parsed file for which the provider reports an outgoing call from f to
\* a target in this file at g
C24_CallEdgesAreReported ==
  job.pc = "returned" =>
     \A e \in 1..Len(job.result.edges) :
        job.result.edges[e].type = "call" =>
           \E f, g \in {FuncNodes(job.result)[k] : k \in 1..Len(FuncNodes(job.result))} :
              /\ job.result.edges[e].from = f.id
              /\ job.result.edges[e].to = g.id
              /\ ReportedInFile(job.src, f, g)

\* the ids of the function nodes of the imported file
OwnFuncIds == {FnNodesOf(index[job.src.file])[k].id :
                 k \in 1..Len(FnNodesOf(index[job.src.file]))}

\* C25: every edge of the delta that resolveCrossFileCallsForFile posts for a
\* file starts at a function of that file and ends at a function of another
\* file
C25_ResolverEdgesLeaveFile ==
  (imp.pc \in {"xpost", "done"} /\ Len(imp.posts) = 2) =>
     \A e \in 1..Len(imp.posts[2].edges) :
        /\ imp.posts[2].edges[e].from \in OwnFuncIds
        /\ imp.posts[2].edges[e].to \notin OwnFuncIds

\* the cross-file delta just posted holds the call edge from f of file u to f
\* of the other file, both at their line in content 1
EmitsCall(u) ==
  /\ lastPost.kind = "xfile"
  /\ \E k \in 1..Len(lastPost.edges) :
       /\ lastPost.edges[k].from = makeFuncId(<<u>>, <<"f">>, 1)
       /\ lastPost.edges[k].to = makeFuncId(<<Other(u)>>, <<"f">>, 1)

\* the batch of a and b has ended: both were parsed with status ok, both
\* deltas were accepted, and the provider answered the resolver for both
BothImported ==
  /\ batch.pc = "done" /\ batch.roots = <<File("a"), File("b")>>
  /\ stats.importedOk = 2 /\ stats.failed = 0 /\ ~cancelled
  /\ \A u \in RegFiles : index[u].status = "ok" /\ chCache[<<u, 1>>].hit

\* C26: when a batch of a and b ends with both files imported and the provider
\* having reported that a.f calls b.f, the edge a.f -> b.f was emitted,
\* in whichever order the two files completed
C26_EdgeInEitherOrder == (<>EmitsCall("a")) \/ [](~BothImported)

\* C27: the resolver posts call edges for a file only when the content that
\* was parsed holds the call: a file re-parsed with its call removed gets no
\* edge out of the answer that was cached for its earlier content
C27_NoEdgeFromEarlierContent ==
  [][ \A t \in TaskIds :
        (tasks[t].pc # "xpost" /\ tasks'[t].pc = "xpost") =>
           CallsOther(tasks[t].text) ]_vars

\* C28: since the resolver's cache was last cleared, the call hierarchy has
\* been asked at most once about any (file, line)
C28_AskedOnce == \A k \in DOMAIN asked : asked[k] <= 1

\* the edges the resolver posted in this import
PostedEdges == IF Len(imp.posts) = 2 THEN imp.posts[2].edges ELSE <<>>

\* C29: a resolution pass posts at most as many edges as the configured
\* ceiling, and when it posts fewer edges than it resolved the message shown
\* gives the number resolved and the number emitted
C29_CapObserved ==
  imp.pc \in {"xpost", "done"} =>
     /\ Len(PostedEdges) <= imp.cap
     /\ Len(PostedEdges) < Len(imp.emit) =>
          /\ imp.told # <<>>
          /\ DOMAIN imp.told[1] = {"total", "emitted"}
          /\ imp.told[1].total = Len(imp.emit)
          /\ imp.told[1].emitted = Len(PostedEdges)

\* m has a skip-listed extension, h is over the size ceiling, g lies under dist
SkipListed == {"m", "h", "g"}

\* C30: in a batch no importUri invocation gets past its filters with a file
\* that has a skip-listed extension, is over the size ceiling or lies under a
\* directory of the skip list: such a file is not read, gets no fingerprint
\* and is not parsed
C30_SkippedNeverRead ==
  /\ \A t \in TaskIds \ {0} :
       tasks[t].uri \in SkipListed => tasks[t].pc \in {"idle", "stat", "done"}
  /\ \A u \in SkipListed \cap Stored :
       fingerprints[normalizePath(u)] = NoFingerprint /\ index[u] = NoResult

\* the top-level importUri invocations of the batch that have not settled
InFlight(ts) == {t \in TaskIds \ {0} : ts[t].inBatch /\ ts[t].pc \notin {"idle", "done"}}

\* the step starts a slice: the first of a new importMany or the next of this one
SliceStarts == batch'.pc = "slice" /\ (batch'.id # batch.id \/ batch'.i # batch.i)

MapperReturned == job.pc = "returned" /\ timer = "cleared" /\ lspP.pc = "resolved"

\* the result's diagnostics record that the Python heuristic fill ran
FillRecorded(res) ==
  \E k \in 1..Len(res.diagnostics) : res.diagnostics[k] = Diag("python heuristics")

\* the fill ran and the text held a class or a def for it to add
HasFilledNode(res, src) ==
  /\ FillRecorded(res)
  /\ harvestPythonHeuristics(src).classNodes \o harvestPythonHeuristics(src).fnList # <<>>

\* C32: the Python heuristic fill runs exactly when the provider returned zero
\* symbols for a .py file; a result with heuristic-filled nodes has status
\* partial and a diagnostic recording the fill; a result for which the provider
\* returned symbols has status ok and no heuristic-filled node
C32_FillOnlyWithoutSymbols ==
  MapperReturned =>
    /\ FillRecorded(job.result) <=> (lspP.symbols = <<>> /\ IsPy(job.src.fsPath))
    /\ HasFilledNode(job.result, job.src) => job.result.status = "partial"
    /\ lspP.symbols # <<>> =>
         job.result.status = "ok" /\ ~HasFilledNode(job.result, job.src)

\* C33: in every result parseFile returns, from the mapper or from the
\* fallback, no two nodes have the same id
C33_NodeIdsDistinct ==
  job.pc = "returned" =>
    \A i, k \in 1..Len(job.result.nodes) :
      job.result.nodes[i].id = job.result.nodes[k].id => i = k

\* the result has a node of that kind with that id
HasNode(res, id, kind) ==
  \E k \in 1..Len(res.nodes) : res.nodes[k].id = id /\ res.nodes[k].kind = kind

\* C34: in every result parseFile returns, a call edge joins two function
\* nodes of the result, and an import edge goes from the module node of the
\* file to a module node (the file's own or a ghost) of the result
C34_EdgesJoinOwnNodes ==
  job.pc = "returned" =>
    \A e \in 1..Len(job.result.edges) :
      IF job.result.edges[e].type = "call"
      THEN /\ HasNode(job.result, job.result.edges[e].from, "func")
           /\ HasNode(job.result, job.result.edges[e].to, "func")
      ELSE /\ job.result.edges[e].type = "import"
           /\ job.result.edges[e].from = job.result.nodes[1].id
           /\ job.result.nodes[1].kind = "module"
           /\ job.result.nodes[1].fsPath = job.src.fsPath
           /\ HasNode(job.result, job.result.edges[e].to, "module")

\* a result of the mapper that holds a call edge and an import edge
C34_Witness ==
  /\ MapperReturned
  /\ \E e \in 1..Len(job.result.edges) : job.result.edges[e].type = "call"
  /\ \E e \in 1..Len(job.result.edges) : job.result.edges[e].type = "import"

\* the import edges of a result, and its ghosts: the module nodes without a path
ImportEdgesOf(res) == SelectSeq(res.edges, LAMBDA e : e.type = "import")
GhostsOf(res) == SelectSeq(res.nodes, LAMBDA n : n.kind = "module" /\ n.fsPath = <<>>)

\* C35: whatever tier produced the result parseFile returns for a path, a text
\* and an import mode, its import edges and its ghost nodes are those the
\* fallback tier produces for that path, text and mode
C35_ImportsSameInBothTiers ==
  job.pc = "returned" =>
    /\ ImportEdgesOf(job.result) = ImportEdgesOf(Fallback(job.src, job.mode, "timeout"))
    /\ GhostsOf(job.result) = GhostsOf(Fallback(job.src, job.mode, "timeout"))

\* the provider tier returned functions together with an import edge and its ghost
C35_Witness ==
  /\ MapperReturned /\ job.result.status = "ok"
  /\ FuncNodes(job.result) # <<>>
  /\ ImportEdgesOf(job.result) # <<>> /\ GhostsOf(job.result) # <<>>

\* the provider answered with a flat list: SymbolInformation has no children
FlatAnswer ==
  /\ lspP.symbols # <<>>
  /\ lspP.symbols = FlatInfos(job.src.symbols, <<>>)

\* the function node the result holds for the symbol declared on that line
FuncNodeAt(res, line) ==
  LET at == {k \in 1..Len(res.nodes) :
               res.nodes[k].kind = "func" /\ res.nodes[k].line = <<line>>}
  IN res.nodes[CHOOSE k \in at : TRUE]

\* C36: for a flat symbol list, a function or method whose container hint
\* names a class of the same response has that class's node as parent and the
\* label Class.method, whatever the order of the list; a function without a
\* hint has the module as parent and its bare name as label
C36_FlatReattached ==
  (MapperReturned /\ FlatAnswer) =>
    \A k \in 1..Len(lspP.symbols) :
      LET s == lspP.symbols[k]
          isClass == \E c \in 1..Len(lspP.symbols) :
                       /\ lspP.symbols[c].kind = "Class"
                       /\ <<lspP.symbols[c].name>> = s.containerName
      IN s.kind \in {"Function", "Method"} =>
           /\ isClass =>
                /\ FuncNodeAt(job.result, s.line).parent =
                     <<makeClassId(asRelativePath(job.src.fsPath), s.containerName[1])>>
                /\ FuncNodeAt(job.result, s.line).label = s.containerName \o <<s.name>>
                /\ HasNode(job.result, FuncNodeAt(job.result, s.line).parent[1], "class")
           /\ s.containerName = <<>> =>
                /\ FuncNodeAt(job.result, s.line).parent = <<ModuleIdOf(job.src)>>
                /\ FuncNodeAt(job.result, s.line).label = <<s.name>>

\* the elements of a sequence
Range(s) == {s[k] : k \in DOMAIN s}

\* C37: among the same-named candidates the resolver picks one whose line is
\* nearest to the line the call target was reported at, and for the same
\* candidates and the same reported line it picks the same one whatever
\* their order in the Parse Index
C37_NearestWhateverOrder ==
  \A i, k \in 1..Len(scans) :
    /\ scans[i].out \in Range(scans[i].cands)
    /\ \A c \in Range(scans[i].cands) :
         Abs(scans[i].out.line - scans[i].tLine) <= Abs(c.line - scans[i].tLine)
    /\ (scans[i].tLine = scans[k].tLine /\ Range(scans[i].cands) = Range(scans[k].cands))
         => scans[i].out = scans[k].out

\* the file of the function a call edge points at
TargetFile(edge) == edge.to[2][1]

\* the file of the function a call edge starts at
SourceFile(edge) == edge.from[2][1]

\* the file was imported since the last clearCanvas: the clear removed every
\* fingerprint, and an import that read the file has stored one again
ImportedSinceClear(f) == fingerprints[normalizePath(f)] # NoFingerprint

\* C38: once clearCanvas was handled, the resolver of a file imported since
\* posts no edge to a function of a file that was not imported again since
C38_ClearedFilesAreNoTargets ==
  [][ (budget.clears = 0 /\ postCount' # postCount /\ lastPost'.kind = "xfile") =>
        \A k \in 1..Len(lastPost'.edges) :
          ImportedSinceClear(SourceFile(lastPost'.edges[k])) =>
            ImportedSinceClear(TargetFile(lastPost'.edges[k])) ]_vars

\* C39: while a panel is open, every save of a document of the workspace is
\* followed in the end by an importUri call for that document, also when
\* another document is saved before the 250 ms of the debounce have passed
C39_SaveIsImported ==
  \A p \in RegFiles : (p \in importDebounce.owed) ~> (p \notin importDebounce.owed)

====
